---------------------------- MODULE Spec2Model ----------------------------
(***************************************************************************)
(* A model of smg-vicon: the Vicon skeleton detector                       *)
(* (smg/vicon/vicon_skeleton_detector.py) over the frame held by a Vicon    *)
(* interface, the subject designations of smg/vicon/vicon_util.py, the     *)
(* offline interface over a folder of saved frames                         *)
(* (smg/vicon/offline_vicon_interface.py), the frame saver                 *)
(* (smg/vicon/vicon_frame_saver.py), the live interface over a Vicon       *)
(* client (smg/vicon/live_vicon_interface.py), the abstract interface both *)
(* derive from (smg/vicon/vicon_interface.py) and the subject-from-source  *)
(* cache (smg/vicon/subject_from_source_cache.py).                         *)
(*                                                                         *)
(* Positions are 3-vectors of exact rationals, written <<x, y, z, d>> for  *)
(* (x/d, y/d, z/d), in lowest terms with d > 0.  <<0, 0, 0, 0>> stands for *)
(* the all-NaN vector numpy produces when vg normalises the zero vector.   *)
(* Floating-point rounding is not modelled.                                *)
(***************************************************************************)
EXTENDS Integers, Sequences, FiniteSets, TLC

VARIABLES
    \* ---- the marker hallucination functions, applied to a dictionary ----
    initial_markers,   \* the dictionary as it was handed over
    marker_positions,  \* the dictionary now (the functions write in place)
    attempted,         \* targets of the single trapezium attempts made so far
    runs,              \* completed calls of __try_hallucinate_missing_markers
    \* ---- the detector and the interface it reads ----
    subjects,          \* OfflineViconInterface.__subjects (the current frame)
    use_vicon_poses,   \* ViconSkeletonDetector.__use_vicon_poses
    is_person,         \* ViconSkeletonDetector.__is_person (injected)
    recorded,          \* the frame as the file get_frame last read holds it
    detected,          \* whether detect_skeletons has been called on this frame
    skeletons,         \* what the last detect_skeletons call returned
    pose_queries,      \* get_segment_global_pose calls made by that call
    \* ---- ViconUtil.compute_subject_designations ----
    designated,        \* whether compute_subject_designations has been called
    designations,      \* the table its last call returned
    \* ---- OfflineViconInterface over a folder, and ViconFrameSaver ----
    folder,            \* the files of the folder on disk, by file name
    constructed,       \* whether the OfflineViconInterface has been constructed
    frame_filenames,   \* OfflineViconInterface.__frame_filenames
    frame_number,      \* OfflineViconInterface.__frame_number: None, or <<n>> for n
    next_frame_idx,    \* OfflineViconInterface.__next_frame_idx
    get_frame_calls,   \* calls of get_frame made so far
    last_file,         \* <<f>> for the file name f the last get_frame call opened
    last_return,       \* how the last get_frame call ended
    loaded,            \* the file names whose get_frame call returned True, in order
    source,            \* the frame held by the interface the ViconFrameSaver reads
    saved,             \* whether save_frame has been called
    \* ---- LiveViconInterface and the Vicon client it holds ----
    live,              \* "none": not made; "made": __init__ returned; "failed": it raised
    collected,         \* whether __del__ has run
    alive,             \* LiveViconInterface.__alive
    client_connected,  \* whether the client has a connection to the Vicon system
    disconnects,       \* calls of the client's Disconnect that returned
    terminate_calls,   \* calls of terminate made so far, however they came about
    last_call,         \* the last call of a method: what it did and how it ended
    server,            \* the frame the Vicon system streams
    \* ---- a caller of the offline interface's queries ----
    answer,            \* the last query made of the interface, and how it ended
    \* ---- SubjectFromSourceCache and the folder it reads ----
    calibration_files, \* the subject_from_source-<name>.txt files of the folder, by subject
    subjects_from_sources, \* SubjectFromSourceCache.__subjects_from_sources
    got,               \* the last call of get: its argument and what became of it
    \* ---- a program that picks one of the two classes of interface ----
    variant,           \* the class it instantiates, "none" before it does
    instance,          \* "none", "made", or the exception instantiation raised
    operations_called  \* the operations its users have called on the instance

vars == <<initial_markers, marker_positions, attempted, runs,
          subjects, use_vicon_poses, is_person, recorded, detected,
          skeletons, pose_queries, designated, designations,
          folder, constructed, frame_filenames, frame_number, next_frame_idx,
          get_frame_calls, last_file, last_return, loaded, source, saved,
          live, collected, alive, client_connected, disconnects, terminate_calls,
          last_call, server, answer,
          calibration_files, subjects_from_sources, got,
          variant, instance, operations_called>>

hallucinationVars == <<initial_markers, marker_positions, attempted, runs>>
detectorVars == <<subjects, use_vicon_poses, is_person, recorded, detected,
                  skeletons, pose_queries>>
designationVars == <<designated, designations>>

\* The variables of the parts of the package the detector does not touch.
offlineVars == <<folder, constructed, frame_filenames, frame_number, next_frame_idx,
                 get_frame_calls, last_file, last_return, loaded, source, saved>>
liveVars == <<live, collected, alive, client_connected, disconnects, terminate_calls,
              last_call, server>>
queryVars == <<answer>>
cacheVars == <<calibration_files, subjects_from_sources, got>>
variantVars == <<variant, instance, operations_called>>
laterVars == <<queryVars, cacheVars, variantVars>>
otherVars == <<designationVars, offlineVars, liveVars, laterVars>>

---------------------------------------------------------------------------
(* Bounds *)

\* Marker coordinates handed to the hallucination functions lie in 0..MaxCoord.
MaxCoord == 1

\* Whole runs of __try_hallucinate_missing_markers on one dictionary.
MaxRuns == 2

\* Segments whose tracking state differs from that of the subject's other segments.
MaxOddSegments == 1

---------------------------------------------------------------------------
(* Exact vector arithmetic (numpy arrays of shape (3,)) *)

NaNVec == <<0, 0, 0, 0>>

IsNaN(v) == v[4] = 0

Abs(n) == IF n < 0 THEN -n ELSE n

RECURSIVE GCD(_, _)
GCD(a, b) == IF b = 0 THEN a ELSE GCD(b, a % b)

\* Lowest terms, positive denominator.
Reduce(v) ==
    IF v[4] = 0 THEN NaNVec
    ELSE LET g == GCD(GCD(GCD(Abs(v[1]), Abs(v[2])), Abs(v[3])), Abs(v[4]))
             s == IF v[4] < 0 THEN -1 ELSE 1
         IN  <<(s * v[1]) \div g, (s * v[2]) \div g, (s * v[3]) \div g,
               (s * v[4]) \div g>>

Vec(x, y, z) == <<x, y, z, 1>>

VAdd(u, v) ==
    IF IsNaN(u) \/ IsNaN(v) THEN NaNVec
    ELSE Reduce(<<u[1] * v[4] + v[1] * u[4], u[2] * v[4] + v[2] * u[4],
                  u[3] * v[4] + v[3] * u[4], u[4] * v[4]>>)

VSub(u, v) ==
    IF IsNaN(u) \/ IsNaN(v) THEN NaNVec
    ELSE Reduce(<<u[1] * v[4] - v[1] * u[4], u[2] * v[4] - v[2] * u[4],
                  u[3] * v[4] - v[3] * u[4], u[4] * v[4]>>)

\* The numerator of u . v; its denominator is u[4] * v[4].
DotNum(u, v) == u[1] * v[1] + u[2] * v[2] + u[3] * v[3]

\* vg.project(vector, onto): dot(vector, onto / |onto|) * (onto / |onto|), which is
\* ((vector . onto) / (onto . onto)) * onto, and all-NaN when onto is the zero vector.
Project(vector, onto) ==
    IF IsNaN(vector) \/ IsNaN(onto) THEN NaNVec
    ELSE IF DotNum(onto, onto) = 0 THEN NaNVec
    ELSE LET ab == DotNum(vector, onto)
             bb == DotNum(onto, onto)
         IN  Reduce(<<ab * onto[1], ab * onto[2], ab * onto[3], vector[4] * bb>>)

RECURSIVE VSum(_)
VSum(ps) == IF Len(ps) = 1 THEN ps[1] ELSE VAdd(ps[1], VSum(Tail(ps)))

\* np.mean(positions, axis=0)
Mean(ps) ==
    LET s == VSum(ps)
    IN  IF IsNaN(s) THEN NaNVec ELSE Reduce(<<s[1], s[2], s[3], s[4] * Len(ps)>>)

---------------------------------------------------------------------------
(* Dictionaries: a function whose domain is the set of keys present *)

EmptyDict == [k \in {} |-> 0]

Has(d, k) == k \in DOMAIN d

Put(d, k, v) == [x \in (DOMAIN d) \cup {k} |-> IF x = k THEN v ELSE d[x]]

---------------------------------------------------------------------------
(* Marker hallucination *)

PelvisMarkers == {"LASI", "LPSI", "RASI", "RPSI"}

\* The position written for the target: O + b + a_perp - a_par.
TrapeziumTargetParallelogram(origin_pos, base_pos, diagonal_pos) ==
    LET a == VSub(diagonal_pos, origin_pos)
        b == VSub(base_pos, origin_pos)
    IN  VAdd(VAdd(origin_pos, b), a)

TrapeziumTarget(origin_pos, base_pos, diagonal_pos) ==
    LET a == VSub(diagonal_pos, origin_pos)
        b == VSub(base_pos, origin_pos)
        a_par == Project(a, b)
        a_perp == VSub(a, a_par)
    IN  VSub(VAdd(VAdd(origin_pos, b), a_perp), a_par)

\* A version that does not test whether the target is already known.
TryHallucinateOverwriting(target_name, mp, origin_name, base_name, diagonal_name) ==
    IF Has(mp, origin_name) /\ Has(mp, base_name) /\ Has(mp, diagonal_name)
    THEN Put(mp, target_name,
             TrapeziumTarget(mp[origin_name], mp[base_name], mp[diagonal_name]))
    ELSE mp

TryHallucinateTrapeziumMarker(target_name, mp, origin_name, base_name, diagonal_name) ==
    IF /\ Has(mp, origin_name) /\ Has(mp, base_name) /\ Has(mp, diagonal_name)
       /\ ~Has(mp, target_name)
    THEN Put(mp, target_name,
             TrapeziumTarget(mp[origin_name], mp[base_name], mp[diagonal_name]))
    ELSE mp

\* The four calls __try_hallucinate_missing_markers makes, by target.
HallucinationAttempt(target_name, mp) ==
    CASE target_name = "LASI" ->
             TryHallucinateTrapeziumMarker("LASI", mp, "LPSI", "RPSI", "RASI")
      [] target_name = "LPSI" ->
             TryHallucinateTrapeziumMarker("LPSI", mp, "LASI", "RASI", "RPSI")
      [] target_name = "RASI" ->
             TryHallucinateTrapeziumMarker("RASI", mp, "RPSI", "LPSI", "LASI")
      [] target_name = "RPSI" ->
             TryHallucinateTrapeziumMarker("RPSI", mp, "RASI", "LASI", "LPSI")

TryHallucinateMissingMarkers(mp) ==
    HallucinationAttempt("RPSI",
        HallucinationAttempt("RASI",
            HallucinationAttempt("LPSI",
                HallucinationAttempt("LASI", mp))))

---------------------------------------------------------------------------
(* The hallucination functions applied to dictionaries drawn from a grid *)

GridPositions == {Vec(x, y, 0) : x \in 0..MaxCoord, y \in 0..MaxCoord}

\* A marker outside the pelvis, to see that it is left alone.
OtherMarker == "LSHO"
OtherMarkerPos == Vec(0, 0, 1)

InputDicts ==
    UNION {[ks -> GridPositions] : ks \in SUBSET PelvisMarkers}

WithOther(d) == Put(d, OtherMarker, OtherMarkerPos)

NoFrame == [k \in {} |-> 0]

\* No interface or detector takes part: their variables stay as constructed.
DetectorIdle ==
    /\ subjects = NoFrame
    /\ recorded = NoFrame
    /\ use_vicon_poses = FALSE
    /\ is_person = [kind |-> "names", names |-> {}]
    /\ detected = FALSE
    /\ skeletons = EmptyDict
    /\ pose_queries = {}

\* compute_subject_designations is not called.
DesignationIdle ==
    /\ designated = FALSE
    /\ designations = EmptyDict

\* No folder is read or written.
OfflineIdle ==
    /\ folder = EmptyDict
    /\ constructed = FALSE
    /\ frame_filenames = <<>>
    /\ frame_number = <<>>
    /\ next_frame_idx = 0
    /\ get_frame_calls = 0
    /\ last_file = <<>>
    /\ last_return = "none"
    /\ loaded = <<>>
    /\ source = <<>>
    /\ saved = FALSE

\* No live interface is made.
LiveIdle ==
    /\ live = "none"
    /\ collected = FALSE
    /\ alive = FALSE
    /\ client_connected = FALSE
    /\ disconnects = 0
    /\ terminate_calls = 0
    /\ last_call = [method |-> "none", client_ops |-> <<>>, failed |-> FALSE,
                    raised |-> FALSE, result |-> [type |-> "NoneType", value |-> <<>>]]
    /\ server = <<>>

\* No query has been made by a caller of the interface.
NoAnswer ==
    [method |-> "none", subject_name |-> "", segment_name |-> "", known |-> FALSE,
     raised |-> FALSE, result |-> [type |-> "NoneType", value |-> <<>>]]

QueryIdle == answer = NoAnswer

\* get has not been called.
NoGet ==
    [subject_name |-> "", looked_on_disk |-> FALSE, raised |-> FALSE,
     result |-> [type |-> "NoneType", value |-> <<>>]]

\* No cache is made and there is no folder of calibration files.
CacheIdle ==
    /\ calibration_files = [k \in {} |-> 0]
    /\ subjects_from_sources = [k \in {} |-> 0]
    /\ got = NoGet

\* No program picks a class of interface.
VariantIdle ==
    /\ variant = "none"
    /\ instance = "none"
    /\ operations_called = {}

LaterIdle == QueryIdle /\ CacheIdle /\ VariantIdle

OthersIdle == DesignationIdle /\ OfflineIdle /\ LiveIdle /\ LaterIdle

InitHallucination ==
    /\ \E d \in InputDicts : initial_markers \in {d, WithOther(d)}
    /\ marker_positions = initial_markers
    /\ attempted = <<>>
    /\ runs = 0
    /\ DetectorIdle
    /\ OthersIdle

Range(s) == {s[i] : i \in 1..Len(s)}

\* One call of __try_hallucinate_trapezium_marker, with the arguments of one of the
\* four calls the code makes; each at most once, in any order.
AttemptOne ==
    /\ runs = 0
    /\ \E t \in PelvisMarkers \ Range(attempted) :
          /\ marker_positions' = HallucinationAttempt(t, marker_positions)
          /\ attempted' = Append(attempted, t)
    /\ UNCHANGED <<initial_markers, runs, detectorVars, otherVars>>

\* One call of __try_hallucinate_missing_markers.
RunHallucination ==
    /\ attempted = <<>>
    /\ runs < MaxRuns
    /\ marker_positions' = TryHallucinateMissingMarkers(marker_positions)
    /\ runs' = runs + 1
    /\ UNCHANGED <<initial_markers, attempted, detectorVars, otherVars>>

NextHallucination == AttemptOne \/ RunHallucination

SpecHallucination == InitHallucination /\ [][NextHallucination]_vars

---------------------------------------------------------------------------
(* The detector's tables (ViconSkeletonDetector.__init__) *)

KeypointPairs ==
    << <<"Head", "Neck">>, <<"LAnkle", "LKnee">>, <<"LAnkle", "LToe">>,
       <<"LElbow", "LShoulder">>, <<"LElbow", "LWrist">>, <<"LHip", "MidHip">>,
       <<"LKnee", "LHip">>, <<"LShoulder", "Neck">>, <<"MidHip", "Neck">>,
       <<"MidHip", "RHip">>, <<"Neck", "RShoulder">>, <<"RAnkle", "RKnee">>,
       <<"RAnkle", "RToe">>, <<"RElbow", "RShoulder">>, <<"RElbow", "RWrist">>,
       <<"RHip", "RKnee">> >>

MarkerToKeypoint ==
    [LANK |-> "LAnkle", LELB |-> "LElbow", LKNE |-> "LKnee", LSHO |-> "LShoulder",
     LTOE |-> "LToe", RANK |-> "RAnkle", RELB |-> "RElbow", RKNE |-> "RKnee",
     RSHO |-> "RShoulder", RTOE |-> "RToe"]

\* The keys of __midhip_from_rests (the matrices themselves are not modelled).
MidhipFromRests ==
    {"LElbow", "LHip", "LKnee", "LShoulder", "MidHip", "Neck", "RElbow", "RHip",
     "RKnee", "RShoulder"}

ParentKeypoints ==
    [LElbow |-> "LShoulder", LHip |-> "MidHip", LKnee |-> "LHip",
     LShoulder |-> "Neck", Neck |-> "MidHip", RElbow |-> "RShoulder",
     RHip |-> "MidHip", RKnee |-> "RHip", RShoulder |-> "Neck"]

SegmentToKeypoint ==
    [L_Elbow |-> "LElbow", R_Elbow |-> "RElbow", L_Femur |-> "LHip",
     R_Femur |-> "RHip", L_Humerus |-> "LShoulder", R_Humerus |-> "RShoulder",
     L_Tibia |-> "LKnee", R_Tibia |-> "RKnee"]

\* The averaged keypoints with their candidate marker sets, in the order the calls
\* of __try_add_keypoint are made.
AveragedKeypoints ==
    << <<"Head", << <<"LBHD", "LFHD", "RBHD", "RFHD">> >> >>,
       <<"LHip", << <<"LASI", "LPSI">> >> >>,
       <<"LWrist", << <<"LWRA", "LWRB">>, <<"LWRA">>, <<"LWRB">>, <<"LFIN">> >> >>,
       <<"MidHip", << <<"LASI", "LPSI", "RASI", "RPSI">>, <<"LASI", "RPSI">>,
                      <<"RASI", "LPSI">> >> >>,
       <<"Neck", << <<"LSHO", "RSHO">> >> >>,
       <<"RHip", << <<"RASI", "RPSI">> >> >>,
       <<"RWrist", << <<"RWRA", "RWRB">>, <<"RWRA">>, <<"RWRB">>, <<"RFIN">> >> >> >>

---------------------------------------------------------------------------
(* Values that are absent or abstract *)

\* Python's None, where a pose or rotation matrix may stand.
None == <<>>

\* A matrix is known by what it is a matrix of; its entries are not modelled.
SegmentPose(segment_name) == <<"segment_from_world", segment_name>>
SegmentRotation(segment_name) == <<"segment_local_rotation", segment_name>>

\* np.linalg.inv of a segment's pose.
Inv(pose) == <<"world_from_segment", pose[2]>>

---------------------------------------------------------------------------
(* The interface's queries (OfflineViconInterface) *)

GetSubjectNames == DOMAIN subjects

\* The dictionary the subject holds, not a copy of it: what the caller writes to
\* it is written to the frame.
GetMarkerPositions(subject_name) ==
    IF Has(subjects, subject_name) THEN subjects[subject_name].marker_positions
    ELSE EmptyDict

GetSegmentGlobalPose(subject_name, segment_name) ==
    IF Has(subjects, subject_name)
    THEN IF Has(subjects[subject_name].segment_global_poses, segment_name)
         THEN subjects[subject_name].segment_global_poses[segment_name]
         ELSE None
    ELSE None

\* The keys of the subject's segment poses; is_none when the subject is unknown.
GetSegmentNames(subject_name) ==
    IF Has(subjects, subject_name)
    THEN [is_none |-> FALSE, names |-> DOMAIN subjects[subject_name].segment_global_poses]
    ELSE [is_none |-> TRUE, names |-> {}]

\* ViconUtil.is_person, on a subject of the current frame.
ViconUtilIsPerson(subject_name) == "Root" \in GetSegmentNames(subject_name).names

\* The injected predicate: ViconUtil.is_person, or a test on the subject's name.
IsPerson(subject_name) ==
    IF is_person.kind = "util" THEN ViconUtilIsPerson(subject_name)
    ELSE subject_name \in is_person.names

---------------------------------------------------------------------------
(* detect_skeletons *)

Keypoint(name, position) == [name |-> name, position |-> position]

\* Keypoints whose positions are those of a single marker.
DirectKeypoints(mp) ==
    LET found == (DOMAIN MarkerToKeypoint) \cap (DOMAIN mp)
    IN  [k \in {MarkerToKeypoint[m] : m \in found} |->
            Keypoint(k, mp[CHOOSE m \in found : MarkerToKeypoint[m] = k])]

AllAvailable(base_marker_set, mp) ==
    \A i \in 1..Len(base_marker_set) : Has(mp, base_marker_set[i])

MeanOfMarkers(base_marker_set, mp) ==
    Mean([i \in 1..Len(base_marker_set) |-> mp[base_marker_set[i]]])

\* A version without the return: a later available set replaces an earlier one.
RECURSIVE TryAddKeypointNoReturn(_, _, _, _)
TryAddKeypointNoReturn(keypoint_name, base_marker_sets, mp, keypoints) ==
    IF base_marker_sets = <<>> THEN keypoints
    ELSE LET base_marker_set == Head(base_marker_sets)
             added == IF AllAvailable(base_marker_set, mp)
                      THEN Put(keypoints, keypoint_name,
                               Keypoint(keypoint_name, MeanOfMarkers(base_marker_set, mp)))
                      ELSE keypoints
         IN  TryAddKeypointNoReturn(keypoint_name, Tail(base_marker_sets), mp, added)

RECURSIVE TryAddKeypoint(_, _, _, _)
TryAddKeypoint(keypoint_name, base_marker_sets, mp, keypoints) ==
    IF base_marker_sets = <<>> THEN keypoints
    ELSE LET base_marker_set == Head(base_marker_sets)
         IN  IF AllAvailable(base_marker_set, mp)
             THEN Put(keypoints, keypoint_name,
                      Keypoint(keypoint_name, MeanOfMarkers(base_marker_set, mp)))
             ELSE TryAddKeypoint(keypoint_name, Tail(base_marker_sets), mp, keypoints)

RECURSIVE AddAveragedKeypoints(_, _, _)
AddAveragedKeypoints(todo, mp, keypoints) ==
    IF todo = <<>> THEN keypoints
    ELSE AddAveragedKeypoints(Tail(todo), mp,
             TryAddKeypoint(Head(todo)[1], Head(todo)[2], mp, keypoints))

\* The keypoints of a subject, from its markers after hallucination.
Keypoints(mp) == AddAveragedKeypoints(AveragedKeypoints, mp, DirectKeypoints(mp))

\* KeypointOrienter.try_make (smg.skeletons): an orienter only if the primary, the
\* secondary and the three triangle keypoints are all there.
OrienterTryMake(keypoints, primary, secondary, triangle) ==
    IF /\ Has(keypoints, primary) /\ Has(keypoints, secondary)
       /\ \A i \in 1..3 : Has(keypoints, triangle[i])
    THEN <<"orienter_pose", primary>>
    ELSE None

\* The poses looked up from the segments.
SegmentKeypointPoses(subject_name) ==
    LET known == {sg \in DOMAIN SegmentToKeypoint :
                     GetSegmentGlobalPose(subject_name, sg) # None}
    IN  [k \in {SegmentToKeypoint[sg] : sg \in known} |->
            Inv(GetSegmentGlobalPose(subject_name,
                    CHOOSE sg \in known : SegmentToKeypoint[sg] = k))]

\* A version that sets the MidHip and Neck poses whether or not an orienter was made.
GlobalKeypointPosesUnchecked(subject_name, keypoints) ==
    Put(Put(SegmentKeypointPoses(subject_name),
            "MidHip", <<"orienter_pose", "MidHip">>),
        "Neck", <<"orienter_pose", "Neck">>)

\* A version that keeps a segment's pose only for a keypoint that was built.
GlobalKeypointPosesOfKeypoints(subject_name, keypoints) ==
    LET from_segments == SegmentKeypointPoses(subject_name)
        kept == [k \in (DOMAIN from_segments) \cap (DOMAIN keypoints) |-> from_segments[k]]
        midhip_orienter ==
            OrienterTryMake(keypoints, "MidHip", "Neck", <<"RHip", "LHip", "Neck">>)
        with_midhip == IF midhip_orienter # None
                       THEN Put(kept, "MidHip", midhip_orienter)
                       ELSE kept
        neck_orienter ==
            OrienterTryMake(keypoints, "Neck", "MidHip", <<"LShoulder", "RShoulder", "MidHip">>)
    IN  IF neck_orienter # None THEN Put(with_midhip, "Neck", neck_orienter)
        ELSE with_midhip

GlobalKeypointPoses(subject_name, keypoints) ==
    LET from_segments == SegmentKeypointPoses(subject_name)
        midhip_orienter ==
            OrienterTryMake(keypoints, "MidHip", "Neck", <<"RHip", "LHip", "Neck">>)
        with_midhip == IF midhip_orienter # None
                       THEN Put(from_segments, "MidHip", midhip_orienter)
                       ELSE from_segments
        neck_orienter ==
            OrienterTryMake(keypoints, "Neck", "MidHip", <<"LShoulder", "RShoulder", "MidHip">>)
    IN  IF neck_orienter # None THEN Put(with_midhip, "Neck", neck_orienter)
        ELSE with_midhip

\* KeypointUtil.compute_local_keypoint_rotations (smg.skeletons): a rotation for
\* each child of the parent table whose pose and whose parent's pose are known.
ComputeLocalKeypointRotations(global_keypoint_poses, midhip_from_rests, parent_keypoints) ==
    [k \in {c \in DOMAIN parent_keypoints :
               /\ Has(global_keypoint_poses, c)
               /\ Has(global_keypoint_poses, parent_keypoints[c])} |->
        <<"local_rotation", k, parent_keypoints[k]>>]

\* The arguments the detector hands to Skeleton3D. poses_given is FALSE when it
\* hands over the keypoints and the keypoint pairs alone.
Skeleton3D(keypoints, keypoint_pairs, poses_given, global_poses, local_rotations) ==
    [keypoints |-> keypoints,
     keypoint_pairs |-> keypoint_pairs,
     poses_given |-> poses_given,
     global_keypoint_poses |-> global_poses,
     local_keypoint_rotations |-> local_rotations]

\* The keypoint pairs handed over: the table.
SkeletonKeypointPairsAvailable(keypoints) ==
    SelectSeq(KeypointPairs, LAMBDA pr : Has(keypoints, pr[1]) /\ Has(keypoints, pr[2]))

SkeletonKeypointPairs(keypoints) == KeypointPairs

\* The get_segment_global_pose calls made for one subject.
SubjectPoseQueries(subject_name) ==
    IF use_vicon_poses
    THEN {<<subject_name, sg>> : sg \in DOMAIN SegmentToKeypoint}
    ELSE {}

\* A version that looks the poses up in both modes.
SubjectSkeletonAlwaysPoses(subject_name) ==
    LET mp == TryHallucinateMissingMarkers(GetMarkerPositions(subject_name))
        keypoints == Keypoints(mp)
        global_keypoint_poses == GlobalKeypointPoses(subject_name, keypoints)
    IN  Skeleton3D(keypoints, SkeletonKeypointPairs(keypoints), TRUE,
                   global_keypoint_poses,
                   ComputeLocalKeypointRotations(global_keypoint_poses,
                                                 MidhipFromRests, ParentKeypoints))

\* A version that computes the local rotations from the poses as they stand before
\* the MidHip and Neck orienters are consulted.
SubjectSkeletonEarlyRotations(subject_name) ==
    LET mp == TryHallucinateMissingMarkers(GetMarkerPositions(subject_name))
        keypoints == Keypoints(mp)
    IN  IF use_vicon_poses
        THEN Skeleton3D(keypoints, SkeletonKeypointPairs(keypoints), TRUE,
                        GlobalKeypointPoses(subject_name, keypoints),
                        ComputeLocalKeypointRotations(
                            GlobalKeypointPosesUnchecked(subject_name, keypoints),
                            MidhipFromRests, ParentKeypoints))
        ELSE Skeleton3D(keypoints, SkeletonKeypointPairs(keypoints), FALSE,
                        EmptyDict, EmptyDict)

\* A version that builds the keypoints from the markers as the interface gave them.
SubjectSkeletonRawMarkers(subject_name) ==
    LET mp == GetMarkerPositions(subject_name)
        keypoints == Keypoints(mp)
    IN  IF use_vicon_poses
        THEN LET global_keypoint_poses == GlobalKeypointPoses(subject_name, keypoints)
             IN  Skeleton3D(keypoints, SkeletonKeypointPairs(keypoints), TRUE,
                            global_keypoint_poses,
                            ComputeLocalKeypointRotations(global_keypoint_poses,
                                                          MidhipFromRests,
                                                          ParentKeypoints))
        ELSE Skeleton3D(keypoints, SkeletonKeypointPairs(keypoints), FALSE,
                        EmptyDict, EmptyDict)

\* The body of the loop over the subjects, for one person.
SubjectSkeleton(subject_name) ==
    LET mp == TryHallucinateMissingMarkers(GetMarkerPositions(subject_name))
        keypoints == Keypoints(mp)
    IN  IF use_vicon_poses
        THEN LET global_keypoint_poses == GlobalKeypointPoses(subject_name, keypoints)
             IN  Skeleton3D(keypoints, SkeletonKeypointPairs(keypoints), TRUE,
                            global_keypoint_poses,
                            ComputeLocalKeypointRotations(global_keypoint_poses,
                                                          MidhipFromRests,
                                                          ParentKeypoints))
        ELSE Skeleton3D(keypoints, SkeletonKeypointPairs(keypoints), FALSE,
                        EmptyDict, EmptyDict)

\* The subjects that get a skeleton.
DetectedSubjectsAll == GetSubjectNames

DetectedSubjects == {s \in GetSubjectNames : IsPerson(s)}

\* detect_skeletons: a skeleton for every subject that is a person. Hallucination
\* writes to the dictionary get_marker_positions returned, which is the frame's.
DetectSkeletons ==
    /\ skeletons' = [s \in DetectedSubjects |-> SubjectSkeleton(s)]
    /\ pose_queries' = UNION {SubjectPoseQueries(s) : s \in DetectedSubjects}
    /\ subjects' = [s \in DOMAIN subjects |->
                       IF s \in DetectedSubjects
                       THEN [subjects[s] EXCEPT !.marker_positions =
                                TryHallucinateMissingMarkers(@)]
                       ELSE subjects[s]]
    /\ detected' = TRUE
    /\ UNCHANGED <<use_vicon_poses, is_person, recorded, hallucinationVars, otherVars>>

---------------------------------------------------------------------------
(* The frames the interface may load *)

SubjectNames == {"Person1", "Object1"}

\* Where each marker of a standing person is, in a frame in which it is visible.
MarkerPos ==
    [LFHD |-> Vec(1, 1, 17), RFHD |-> Vec(-1, 1, 17),
     LBHD |-> Vec(1, -1, 17), RBHD |-> Vec(-1, -1, 17),
     LSHO |-> Vec(2, 0, 14), RSHO |-> Vec(-2, 0, 14),
     LELB |-> Vec(3, 0, 11), RELB |-> Vec(-3, 0, 11),
     LWRA |-> Vec(3, 1, 8), LWRB |-> Vec(3, -1, 8), LFIN |-> Vec(3, 0, 7),
     RWRA |-> Vec(-3, 1, 8), RWRB |-> Vec(-3, -1, 8), RFIN |-> Vec(-3, 0, 7),
     LASI |-> Vec(2, 1, 10), RASI |-> Vec(-2, 1, 10),
     LPSI |-> Vec(1, -1, 10), RPSI |-> Vec(-1, -2, 10),
     LKNE |-> Vec(1, 0, 5), RKNE |-> Vec(-1, 0, 5),
     LANK |-> Vec(1, 0, 1), RANK |-> Vec(-1, 0, 1),
     LTOE |-> Vec(1, 2, 0), RTOE |-> Vec(-1, 2, 0)]

AllMarkers == DOMAIN MarkerPos

\* The markers whose visibility a frame varies together.
MarkerGroups ==
    {{"LASI", "LPSI", "RASI", "RPSI", "LSHO", "RSHO"},
     {"LFHD", "RFHD", "LBHD", "RBHD"},
     {"LWRA", "LWRB", "LFIN"},
     {"RWRA", "RWRB", "RFIN"},
     {"LELB", "RELB", "LKNE", "RKNE"},
     {"LANK", "RANK", "LTOE", "RTOE"}}

\* Any subset of one group is visible, the other groups wholly visible or wholly not.
VisibleSets ==
    UNION {{(IF rest THEN AllMarkers \ g ELSE {}) \cup v :
               v \in SUBSET g, rest \in BOOLEAN} : g \in MarkerGroups}

TrackableSegments == DOMAIN SegmentToKeypoint

\* All but a few of the segments are tracked, or all but a few are not.
TrackedSets ==
    {t \in SUBSET TrackableSegments :
        \/ Cardinality(t) <= MaxOddSegments
        \/ Cardinality(TrackableSegments \ t) <= MaxOddSegments}

\* OfflineViconInterface.Subject
Subject(marker_positions_, segment_global_poses, segment_local_rotations) ==
    [marker_positions |-> marker_positions_,
     segment_global_poses |-> segment_global_poses,
     segment_local_rotations |-> segment_local_rotations]

\* A person: the visible markers, the tracked segments, and whether the subject
\* has a Root segment.
PersonSnapshot(visible, tracked, has_root) ==
    LET segs == TrackableSegments \cup (IF has_root THEN {"Root"} ELSE {})
        known(sg) == sg \in tracked \/ sg = "Root"
    IN  Subject([m \in visible |-> MarkerPos[m]],
                [sg \in segs |-> IF known(sg) THEN SegmentPose(sg) ELSE None],
                [sg \in segs |-> IF known(sg) THEN SegmentRotation(sg) ELSE None])

PersonSnapshots ==
    {PersonSnapshot(v, TrackableSegments, TRUE) : v \in VisibleSets}
    \cup {PersonSnapshot(v, t, r) :
             v \in {AllMarkers, {}}, t \in TrackedSets, r \in BOOLEAN}

\* A rigid object: one marker, and one segment named as the subject is.
ObjectSnapshot(subject_name, tracked) ==
    Subject([m \in {"Marker1"} |-> Vec(5, 5, 1)],
            [sg \in {subject_name} |-> IF tracked THEN SegmentPose(sg) ELSE None],
            [sg \in {subject_name} |-> IF tracked THEN SegmentRotation(sg) ELSE None])

CompanionSnapshots ==
    {ObjectSnapshot("Object1", TRUE), ObjectSnapshot("Object1", FALSE),
     PersonSnapshot(AllMarkers, TrackableSegments, TRUE)}

AccompaniedSnapshots ==
    {PersonSnapshot(AllMarkers, TrackableSegments, TRUE),
     PersonSnapshot(AllMarkers \ {"RPSI"}, TrackableSegments, TRUE),
     PersonSnapshot({}, {}, TRUE)}

Frames ==
    {EmptyDict}
    \cup {[s \in {"Person1"} |-> p] : p \in PersonSnapshots}
    \cup {[s \in {"Object1"} |-> o] : o \in CompanionSnapshots}
    \cup {[s \in SubjectNames |-> IF s = "Person1" THEN p ELSE o] :
             p \in AccompaniedSnapshots, o \in CompanionSnapshots}

IsPersonPredicates ==
    {[kind |-> "util", names |-> {}]}
    \cup {[kind |-> "names", names |-> n] : n \in SUBSET SubjectNames}

\* The hallucination functions are not called on a dictionary of their own here.
HallucinationIdle ==
    /\ initial_markers = EmptyDict
    /\ marker_positions = EmptyDict
    /\ attempted = <<>>
    /\ runs = 0

\* The interface and the detector as constructed: no frame has been loaded yet.
Init ==
    /\ subjects = NoFrame
    /\ recorded = NoFrame
    /\ use_vicon_poses \in BOOLEAN
    /\ is_person \in IsPersonPredicates
    /\ detected = FALSE
    /\ skeletons = EmptyDict
    /\ pose_queries = {}
    /\ HallucinationIdle
    /\ OthersIdle

\* get_frame: the interface replaces its frame by the next one of the recording
\* (the empty frame when there is none left). The skeletons of the frame before
\* are the caller's to drop.
GetFrame ==
    /\ \E f \in Frames :
          /\ subjects' = f
          /\ recorded' = f
    /\ detected' = FALSE
    /\ skeletons' = EmptyDict
    /\ pose_queries' = {}
    /\ UNCHANGED <<use_vicon_poses, is_person, hallucinationVars, otherVars>>

Next == GetFrame \/ DetectSkeletons

Spec == Init /\ [][Next]_vars

---------------------------------------------------------------------------
(* Claims about marker hallucination (checked under SpecHallucination) *)

MissingPelvis(d) == PelvisMarkers \ DOMAIN d

\* C1: hallucination writes a pelvis marker only when that marker is absent and the
\* other three are present; every marker already present keeps its value; and the
\* dictionary is left exactly as it was when two or more of the four are absent.
C1_WritesOnlyTheOneMissingMarker ==
    [][/\ \A m \in DOMAIN marker_positions :
             m \in DOMAIN marker_positions' /\ marker_positions'[m] = marker_positions[m]
       /\ \A m \in (DOMAIN marker_positions') \ (DOMAIN marker_positions) :
             /\ m \in PelvisMarkers
             /\ (PelvisMarkers \ {m}) \subseteq DOMAIN marker_positions
       /\ Cardinality(MissingPelvis(marker_positions)) >= 2
             => marker_positions' = marker_positions]_vars

\* C1 happens: a run on a dictionary with one pelvis marker absent has filled it.
C1_Witness_Filled ==
    /\ Cardinality(MissingPelvis(initial_markers)) = 1
    /\ MissingPelvis(marker_positions) = {}
    /\ runs = 1

\* C2: a second run of __try_hallucinate_missing_markers on the output of the first
\* changes nothing.
C2_SecondRunChangesNothing ==
    [][(runs >= 1 /\ runs' = runs + 1) => marker_positions' = marker_positions]_vars

\* C2 happens: two runs were made and the first one filled a marker.
C2_Witness_TwoRuns ==
    /\ runs = 2
    /\ marker_positions # initial_markers

\* C3: the four attempts made in any order give what the code's order gives.
C3_OrderDoesNotMatter ==
    (Len(attempted) = 4)
        => marker_positions = TryHallucinateMissingMarkers(initial_markers)

\* C3 happens: the four attempts were made in the reverse of the code's order and
\* one of them filled a marker.
C3_Witness_ReverseOrder ==
    /\ attempted = <<"RPSI", "RASI", "LPSI", "LASI">>
    /\ marker_positions # initial_markers

ExampleMarkers ==
    [m \in {"LASI", "LPSI", "RASI"} |->
        CASE m = "LASI" -> Vec(1, 0, 0)
          [] m = "LPSI" -> Vec(1, 1, 0)
          [] m = "RASI" -> Vec(0, 0, 0)]

\* C4: from LASI=[1,0,0], LPSI=[1,1,0], RASI=[0,0,0] a run fills RPSI with exactly
\* [0,1,0] and leaves the three given markers as they were.
C4_ExampleFillsRPSI ==
    (initial_markers = ExampleMarkers /\ runs >= 1)
        => marker_positions = Put(ExampleMarkers, "RPSI", Vec(0, 1, 0))

\* C4 happens: the example dictionary has been run through hallucination.
C4_Witness_ExampleRun ==
    /\ initial_markers = ExampleMarkers
    /\ runs = 1
    /\ Has(marker_positions, "RPSI")


---------------------------------------------------------------------------
(* Claims about detect_skeletons (checked under Spec) *)

\* The indices of the candidate sets all of whose markers are in the dictionary.
CompleteSets(base_marker_sets, mp) ==
    {i \in 1..Len(base_marker_sets) :
        \A j \in 1..Len(base_marker_sets[i]) : base_marker_sets[i][j] \in DOMAIN mp}

Least(S) == CHOOSE i \in S : \A j \in S : i <= j

\* C5: each averaged keypoint of a skeleton is the mean of the markers of the first
\* candidate set that is wholly in the dictionary the detector worked on (the
\* subject's markers after hallucination), and is absent when no set is.
C5_FirstCompleteSetIsAveraged ==
    detected =>
        \A s \in DOMAIN skeletons : \A n \in 1..Len(AveragedKeypoints) :
            LET keypoint_name == AveragedKeypoints[n][1]
                sets == AveragedKeypoints[n][2]
                mp == subjects[s].marker_positions
                complete == CompleteSets(sets, mp)
            IN  IF complete = {}
                THEN keypoint_name \notin DOMAIN skeletons[s].keypoints
                ELSE /\ keypoint_name \in DOMAIN skeletons[s].keypoints
                     /\ skeletons[s].keypoints[keypoint_name].position
                            = MeanOfMarkers(sets[Least(complete)], mp)

\* C5 happens: LWRA, LWRB and LFIN are all visible, so the first and the last set of
\* LWrist are both complete, and LWrist is the mean of LWRA and LWRB.
C5_Witness_EarlierSetWins ==
    /\ detected
    /\ "Person1" \in DOMAIN skeletons
    /\ {"LWRA", "LWRB", "LFIN"} \subseteq DOMAIN subjects["Person1"].marker_positions
    /\ "LWrist" \in DOMAIN skeletons["Person1"].keypoints
    /\ skeletons["Person1"].keypoints["LWrist"].position = Vec(3, 0, 8)

\* C6: the subjects that get a skeleton are exactly the subjects of the frame for
\* which is_person holds; one of them without markers gets a skeleton without keypoints.
C6_SkeletonsAreThePersons ==
    detected =>
        /\ DOMAIN skeletons = {s \in DOMAIN subjects : IsPerson(s)}
        /\ \A s \in DOMAIN skeletons :
              (DOMAIN recorded[s].marker_positions = {})
                  => (DOMAIN skeletons[s].keypoints = {})

\* C6 happens: a frame with a person that has no visible marker and a subject that
\* is no person.
C6_Witness_PersonWithoutMarkers ==
    /\ detected
    /\ DOMAIN subjects = SubjectNames
    /\ DOMAIN skeletons = {"Person1"}
    /\ DOMAIN recorded["Person1"].marker_positions = {}
    /\ DOMAIN skeletons["Person1"].keypoints = {}

\* C7: every skeleton carries the table of keypoint pairs, whatever its keypoints.
C7_BoneTableIsStatic ==
    \A s \in DOMAIN skeletons : skeletons[s].keypoint_pairs = KeypointPairs

\* C7 happens: a skeleton in segment-pose mode that lacks the Head keypoint.
C7_Witness_SparseSkeleton ==
    /\ detected
    /\ use_vicon_poses
    /\ "Person1" \in DOMAIN skeletons
    /\ "Neck" \in DOMAIN skeletons["Person1"].keypoints
    /\ "Head" \notin DOMAIN skeletons["Person1"].keypoints

\* C8: in keypoint-only mode the detector asks the interface for no segment pose and
\* hands Skeleton3D the keypoints and the keypoint pairs alone.
C8_KeypointOnlyModeAsksNoPoses ==
    (detected /\ ~use_vicon_poses) =>
        /\ pose_queries = {}
        /\ \A s \in DOMAIN skeletons :
              /\ ~skeletons[s].poses_given
              /\ DOMAIN skeletons[s].global_keypoint_poses = {}
              /\ DOMAIN skeletons[s].local_keypoint_rotations = {}

\* C8 happens: keypoint-only mode, a skeleton with keypoints for a subject whose
\* segments are tracked.
C8_Witness_KeypointOnly ==
    /\ detected
    /\ ~use_vicon_poses
    /\ "Person1" \in DOMAIN skeletons
    /\ "LElbow" \in DOMAIN skeletons["Person1"].keypoints
    /\ GetSegmentGlobalPose("Person1", "L_Elbow") # None

\* The keypoints of the segments of the table whose pose the interface knows.
TrackedSegmentKeypoints(subject_name) ==
    {SegmentToKeypoint[sg] : sg \in {x \in DOMAIN SegmentToKeypoint :
        /\ x \in DOMAIN subjects[subject_name].segment_global_poses
        /\ subjects[subject_name].segment_global_poses[x] # None}}

\* C9 as claimed: the keypoints that have a global pose are keypoints of the skeleton.
C9_PosesOnlyForKeypoints ==
    (detected /\ use_vicon_poses) =>
        \A s \in DOMAIN skeletons :
            DOMAIN skeletons[s].global_keypoint_poses \subseteq DOMAIN skeletons[s].keypoints

\* C9 amended: the keypoint of every table segment whose pose the interface knows
\* has a global pose, whether or not the keypoint itself was built; any other
\* global pose (MidHip, Neck) belongs to a keypoint of the skeleton.
C9_PosesForTrackedSegmentsAndKeypoints ==
    (detected /\ use_vicon_poses) =>
        \A s \in DOMAIN skeletons :
            LET poses == DOMAIN skeletons[s].global_keypoint_poses
            IN  /\ TrackedSegmentKeypoints(s) \subseteq poses
                /\ (poses \ TrackedSegmentKeypoints(s)) \subseteq {"MidHip", "Neck"}
                /\ (poses \ TrackedSegmentKeypoints(s)) \subseteq DOMAIN skeletons[s].keypoints

\* C9 happens: the LELB marker is not visible but the L_Elbow segment is tracked, and
\* the skeleton has a global pose for LElbow without an LElbow keypoint.
C9_Witness_PoseWithoutKeypoint ==
    /\ detected
    /\ use_vicon_poses
    /\ "Person1" \in DOMAIN skeletons
    /\ "LElbow" \notin DOMAIN skeletons["Person1"].keypoints
    /\ "LElbow" \in DOMAIN skeletons["Person1"].global_keypoint_poses
    /\ "MidHip" \in DOMAIN skeletons["Person1"].global_keypoint_poses

\* C10: MidHip has a global pose only if MidHip, Neck, RHip and LHip are keypoints of
\* the skeleton, and Neck only if Neck, MidHip, LShoulder and RShoulder are.
C10_SynthesisedPosesNeedTheirKeypoints ==
    (detected /\ use_vicon_poses) =>
        \A s \in DOMAIN skeletons :
            LET poses == DOMAIN skeletons[s].global_keypoint_poses
                keypoints == DOMAIN skeletons[s].keypoints
            IN  /\ "MidHip" \in poses
                      => {"MidHip", "Neck", "RHip", "LHip"} \subseteq keypoints
                /\ "Neck" \in poses
                      => {"Neck", "MidHip", "LShoulder", "RShoulder"} \subseteq keypoints

\* C10 happens: MidHip and Neck are keypoints but LHip is not (of the pelvis only
\* LASI and RPSI are visible), so MidHip has no global pose, while Neck has one.
C10_Witness_MissingHip ==
    /\ detected
    /\ use_vicon_poses
    /\ "Person1" \in DOMAIN skeletons
    /\ {"MidHip", "Neck"} \subseteq DOMAIN skeletons["Person1"].keypoints
    /\ "LHip" \notin DOMAIN skeletons["Person1"].keypoints
    /\ "MidHip" \notin DOMAIN skeletons["Person1"].global_keypoint_poses
    /\ "Neck" \in DOMAIN skeletons["Person1"].global_keypoint_poses

---------------------------------------------------------------------------
(* Claims about local keypoint rotations (checked under Spec) *)

\* C11: a skeleton has a local rotation for a keypoint only if the keypoint is a child
\* in the parent-keypoint table and the skeleton of the same frame has a global pose
\* both for it and for its parent; the root MidHip never has one.
C11_LocalRotationsNeedBothPoses ==
    detected =>
        \A s \in DOMAIN skeletons :
            LET poses == DOMAIN skeletons[s].global_keypoint_poses
                rotations == DOMAIN skeletons[s].local_keypoint_rotations
            IN  /\ \A k \in rotations :
                      /\ k \in DOMAIN ParentKeypoints
                      /\ k \in poses
                      /\ ParentKeypoints[k] \in poses
                /\ "MidHip" \notin rotations
                /\ skeletons[s].local_keypoint_rotations =
                      ComputeLocalKeypointRotations(skeletons[s].global_keypoint_poses,
                                                    MidhipFromRests, ParentKeypoints)

\* C11 happens: the L_Femur segment is tracked, so LHip has a global pose, but its
\* parent MidHip has none, and LHip has no local rotation, while LKnee, whose parent
\* LHip has a pose, has one.
C11_Witness_ParentPoseUnknown ==
    /\ detected
    /\ use_vicon_poses
    /\ "Person1" \in DOMAIN skeletons
    /\ {"LHip", "LKnee"} \subseteq DOMAIN skeletons["Person1"].global_keypoint_poses
    /\ "MidHip" \notin DOMAIN skeletons["Person1"].global_keypoint_poses
    /\ "LHip" \notin DOMAIN skeletons["Person1"].local_keypoint_rotations
    /\ "LKnee" \in DOMAIN skeletons["Person1"].local_keypoint_rotations

---------------------------------------------------------------------------
(* Subject designation (ViconUtil.compute_subject_designations) *)

\* The first six characters of the names the frames below give to subjects.
FirstSix ==
    [Person1 |-> "Person", Person2 |-> "Person", Object1 |-> "Object",
     Object2 |-> "Object", Wand1 |-> "Wand1"]

\* ViconUtil.is_designatable: subject_name.startswith("Object")
IsDesignatable(subject_name) == FirstSix[subject_name] = "Object"

\* The pose of a rigid object's segment, which fixes where the object is.
ObjectPose(segment_name, position) == <<"segment_from_world", segment_name, position>>

\* CameraPoseConverter.pose_to_camera(pose).p() (smg.rigging): the position of the
\* subject whose pose it is.
PoseToCameraP(pose) == pose[3]

\* GeometryUtil.find_closest_point_on_half_ray (smg.utility): the point
\* start + t * direction nearest to the point, with t clamped at 0 so that the ray
\* does not extend behind its start. All-NaN for a zero direction.
FindClosestPointOnHalfRay(point, start, direction) ==
    IF IsNaN(point) \/ IsNaN(start) \/ IsNaN(direction) THEN NaNVec
    ELSE IF DotNum(direction, direction) = 0 THEN NaNVec
    ELSE LET along == Project(VSub(point, start), direction)
         IN  IF DotNum(VSub(point, start), direction) <= 0 THEN start
             ELSE VAdd(start, along)

\* np.linalg.norm(u - v), carried as its square <<n, d>> for n/d, which orders
\* distances as the norms themselves do; <<0, 0>> is NaN.
Distance(u, v) ==
    LET w == VSub(u, v)
    IN  IF IsNaN(w) THEN <<0, 0>> ELSE <<DotNum(w, w), w[4] * w[4]>>

\* a < b on distances; False when either is NaN.
DistanceLess(a, b) ==
    /\ a[2] # 0
    /\ b[2] # 0
    /\ a[1] * b[2] < b[1] * a[2]

\* Insertion of a pair into a list sorted by distance, after the pairs that are
\* not farther than it.
RECURSIVE InsertByDistance(_, _)
InsertByDistance(pair, list) ==
    IF list = <<>> THEN <<pair>>
    ELSE IF DistanceLess(pair[2], list[1][2]) THEN <<pair>> \o list
    ELSE <<list[1]>> \o InsertByDistance(pair, Tail(list))

\* The list as it was appended to, with no sorting.
Unsorted(list) == list

\* sorted(list, key=itemgetter(1)): a stable sort by distance.
RECURSIVE Sorted(_)
Sorted(list) ==
    IF list = <<>> THEN <<>>
    ELSE InsertByDistance(list[Len(list)], Sorted(SubSeq(list, 1, Len(list) - 1)))

\* Whether the skeleton has both keypoints of its right upper arm.
HasRightUpperArm(skeleton) ==
    /\ Has(skeleton.keypoints, "RShoulder")
    /\ Has(skeleton.keypoints, "RElbow")

\* The (skeleton, distance) pair appended for a subject at subject_pos.
DesignationPair(subject_pos, skeleton_name, skeleton) ==
    LET right_shoulder_pos == skeleton.keypoints["RShoulder"].position
        right_elbow_pos == skeleton.keypoints["RElbow"].position
        closest_point == FindClosestPointOnHalfRay(
                             subject_pos, right_shoulder_pos,
                             VSub(right_elbow_pos, right_shoulder_pos))
    IN  <<skeleton_name, Distance(subject_pos, closest_point)>>

\* The pairs appended for one subject, over the skeletons in the order the
\* dictionary of skeletons yields them.
RECURSIVE AppendedPairs(_, _, _)
AppendedPairs(subject_pos, skeleton_names, the_skeletons) ==
    IF skeleton_names = <<>> THEN <<>>
    ELSE LET skeleton_name == skeleton_names[1]
             rest == AppendedPairs(subject_pos, Tail(skeleton_names), the_skeletons)
         IN  IF HasRightUpperArm(the_skeletons[skeleton_name])
             THEN <<DesignationPair(subject_pos, skeleton_name,
                                    the_skeletons[skeleton_name])>> \o rest
             ELSE rest

\* The subjects the loop does not skip: designatable, and with a known pose of the
\* segment named as the subject is.
DesignatedSubjects ==
    {s \in GetSubjectNames :
        /\ IsDesignatable(s)
        /\ GetSegmentGlobalPose(s, s) # None}

\* A version in which every subject the loop does not skip has an entry, as a
\* defaultdict gives one to a key that is looked up with [] and not with get.
SubjectDesignationsEagerEntries(skeleton_names, the_skeletons) ==
    [s \in DesignatedSubjects |->
        Sorted(AppendedPairs(PoseToCameraP(GetSegmentGlobalPose(s, s)),
                             skeleton_names, the_skeletons))]

\* The table compute_subject_designations returns: a defaultdict, in which a
\* subject has an entry only once a pair has been appended for it.
SubjectDesignations(skeleton_names, the_skeletons) ==
    LET appended(s) == AppendedPairs(PoseToCameraP(GetSegmentGlobalPose(s, s)),
                                     skeleton_names, the_skeletons)
    IN  [s \in {d \in DesignatedSubjects : appended(d) # <<>>} |-> Sorted(appended(s))]

\* The orders in which a dictionary with these keys may yield them.
Orderings(keys) == {q \in [1..Cardinality(keys) -> keys] : Range(q) = keys}

\* compute_subject_designations, on the interface's current frame and the
\* skeletons last detected.
ComputeSubjectDesignations ==
    /\ \E skeleton_names \in Orderings(DOMAIN skeletons) :
          designations' = SubjectDesignations(skeleton_names, skeletons)
    /\ designated' = TRUE
    /\ UNCHANGED <<hallucinationVars, detectorVars, offlineVars, liveVars, laterVars>>

\* A person of whose markers only some of the right upper arm's are visible,
\* standing offset from where MarkerPos has a person stand.
ArmSnapshot(visible, offset) ==
    Subject([m \in visible |-> VAdd(MarkerPos[m], offset)],
            [sg \in {"Root"} |-> SegmentPose(sg)],
            [sg \in {"Root"} |-> SegmentRotation(sg)])

PersonOffset == [Person1 |-> Vec(0, 0, 0), Person2 |-> Vec(6, 0, 0)]

\* Where an object may be: on the ray of Person1's arm, on that of Person2's, as
\* far from the one as from the other, and behind both persons' shoulders.
ObjectPositions == {Vec(-4, 0, 8), Vec(2, 0, 8), Vec(-1, 0, 8), Vec(-2, 0, 17)}

\* A rigid object at a position, or one the system has lost track of.
PlacedSnapshot(subject_name, tracked, position) ==
    Subject([m \in {"Marker1"} |-> position],
            [sg \in {subject_name} |->
                IF tracked THEN ObjectPose(sg, position) ELSE None],
            [sg \in {subject_name} |->
                IF tracked THEN SegmentRotation(sg) ELSE None])

\* The snapshots a subject of the given name may have in a frame.
DesignationSnapshots(subject_name) ==
    IF subject_name \in DOMAIN PersonOffset
    THEN {ArmSnapshot(v, PersonOffset[subject_name]) : v \in SUBSET {"RSHO", "RELB"}}
    ELSE IF IsDesignatable(subject_name)
    THEN {PlacedSnapshot(subject_name, TRUE, p) : p \in ObjectPositions}
         \cup {PlacedSnapshot(subject_name, FALSE, Vec(0, 0, 0))}
    ELSE {PlacedSnapshot(subject_name, t, Vec(-4, 0, 8)) : t \in BOOLEAN}

\* Frames with up to two persons, two objects and a wand.
DesignationFrames ==
    LET full == [Person1 : DesignationSnapshots("Person1"),
                 Person2 : DesignationSnapshots("Person2"),
                 Object1 : DesignationSnapshots("Object1"),
                 Object2 : DesignationSnapshots("Object2"),
                 Wand1 : DesignationSnapshots("Wand1")]
    IN  {[n \in present |-> f[n]] : f \in full, present \in SUBSET DOMAIN FirstSix}

\* The interface holds a frame; the detector tells persons by their Root segment.
InitDesignation ==
    /\ subjects \in DesignationFrames
    /\ recorded = subjects
    /\ use_vicon_poses = FALSE
    /\ is_person = [kind |-> "util", names |-> {}]
    /\ detected = FALSE
    /\ skeletons = EmptyDict
    /\ pose_queries = {}
    /\ HallucinationIdle
    /\ DesignationIdle
    /\ OfflineIdle
    /\ LiveIdle
    /\ LaterIdle

NextDesignation == DetectSkeletons \/ ComputeSubjectDesignations

SpecDesignation == InitDesignation /\ [][NextDesignation]_vars

---------------------------------------------------------------------------
(* Claims about subject designation (checked under SpecDesignation) *)

\* C12: in every list of the table compute_subject_designations returns, no pair
\* has a smaller distance than the pair before it.
C12_ListsSortedByDistance ==
    designated =>
        \A s \in DOMAIN designations :
            \A i \in 1..(Len(designations[s]) - 1) :
                ~DistanceLess(designations[s][i + 1][2], designations[s][i][2])

\* C12 happens: both persons point, Object1 lies on the ray of Person2's arm and
\* Object2 on that of Person1's, so that the two lists, appended to in the same
\* order of skeletons, come out in opposite orders.
C12_Witness_OppositeOrders ==
    /\ designated
    /\ DOMAIN designations = {"Object1", "Object2"}
    /\ Len(designations["Object1"]) = 2
    /\ designations["Object1"][1] = <<"Person2", <<0, 1>> >>
    /\ designations["Object1"][2][1] = "Person1"
    /\ Len(designations["Object2"]) = 2
    /\ designations["Object2"][1] = <<"Person1", <<0, 1>> >>
    /\ designations["Object2"][2][1] = "Person2"

\* The skeletons that have both RShoulder and RElbow.
PointingSkeletons == {k \in DOMAIN skeletons : HasRightUpperArm(skeletons[k])}

\* Whether the table is the one C13 describes for the current frame and skeletons.
IsDesignationTable(table) ==
    /\ DOMAIN table = {s \in GetSubjectNames :
                          /\ IsDesignatable(s)
                          /\ GetSegmentGlobalPose(s, s) # None
                          /\ PointingSkeletons # {}}
    /\ \A s \in DOMAIN table :
          /\ {table[s][i][1] : i \in 1..Len(table[s])} = PointingSkeletons
          /\ Len(table[s]) = Cardinality(PointingSkeletons)

\* C13: the table a call of compute_subject_designations returns has an entry for a
\* subject exactly when the subject is designatable, the pose of its segment of the
\* same name is known and some skeleton has both RShoulder and RElbow, and the
\* entry holds one pair for each such skeleton and none for any other.
C13_EntryForEachDesignatedSubject ==
    [][(designated' /\ skeletons' = skeletons) => IsDesignationTable(designations')]_vars

\* C13 happens: Person1 has both keypoints and Person2 the shoulder only; Object1 is
\* tracked, Object2 is not, and the wand is tracked but not designatable. The table
\* has the one entry for Object1, with the one pair for Person1.
C13_Witness_OneOfEach ==
    /\ designated
    /\ DOMAIN skeletons = {"Person1", "Person2"}
    /\ HasRightUpperArm(skeletons["Person1"])
    /\ Has(skeletons["Person2"].keypoints, "RShoulder")
    /\ ~Has(skeletons["Person2"].keypoints, "RElbow")
    /\ {"Object1", "Object2", "Wand1"} \subseteq GetSubjectNames
    /\ GetSegmentGlobalPose("Object2", "Object2") = None
    /\ GetSegmentGlobalPose("Wand1", "Wand1") # None
    /\ DOMAIN designations = {"Object1"}
    /\ Len(designations["Object1"]) = 1
    /\ designations["Object1"][1][1] = "Person1"

---------------------------------------------------------------------------
(* The recording on disk (OfflineViconInterface, ViconFrameSaver) *)

\* get_frame calls made on one interface.
MaxGetFrameCalls == 5

\* A file name: the digits before the first dot, and the rest of the name.
Filename(stem, suffix) == [stem |-> stem, suffix |-> suffix]

\* int() of a string of decimal digits.
RECURSIVE ParseInt(_)
ParseInt(digits) ==
    IF digits = <<>> THEN 0
    ELSE 10 * ParseInt(SubSeq(digits, 1, Len(digits) - 1)) + digits[Len(digits)]

\* str() of a frame number that is not negative.
RECURSIVE FormatInt(_)
FormatInt(n) ==
    IF n < 10 THEN <<n>> ELSE Append(FormatInt(n \div 10), n % 10)

\* __get_frame_number: the name is split at its dots into three parts, of which the
\* first is the frame number.
GetFrameNumber(filename) == ParseInt(filename.stem)

\* sorted(frame_filenames, key=__get_frame_number), for names no two of which hold
\* the same number.
RECURSIVE SortedByFrameNumber(_)
SortedByFrameNumber(filenames) ==
    IF filenames = {} THEN <<>>
    ELSE LET first == CHOOSE f \in filenames :
                          \A g \in filenames : GetFrameNumber(f) <= GetFrameNumber(g)
         IN  <<first>> \o SortedByFrameNumber(filenames \ {first})

\* The names os.listdir yields that end with ".vicon.txt".
FrameFilenames == {f \in DOMAIN folder : f.suffix = ".vicon.txt"}

\* A line "specifier: contents\n" of a file; the contents are text that names a
\* subject, or the text of a mapping literal.
Line(specifier, contents) == [specifier |-> specifier, contents |-> contents]

NameText(subject_name) == [type |-> "name", of |-> "name", value |-> subject_name]

\* of tells what the arrays of the literal hold: 3, 16 or 9 numbers each.
DictText(of, dict) == [type |-> "dict", of |-> of, value |-> dict]

\* The line "\n".
BlankLine == Line("", [type |-> "none", of |-> "none", value |-> EmptyDict])

\* What save_frame writes for one subject, and what a saver before local rotations
\* were recorded wrote for it.
SubjectLines(layout, subject_name, subject) ==
    << Line("Subject", NameText(subject_name)),
       Line("Marker Positions", DictText("markers", subject.marker_positions)),
       Line("Segment Poses", DictText("poses", subject.segment_global_poses)) >>
    \o (IF layout = "new"
        THEN << Line("Segment Local Rotations",
                     DictText("rotations", subject.segment_local_rotations)) >>
        ELSE << >>)
    \o << BlankLine >>

\* A file is known by its layout and the subjects written to it, in order.
File(layout, entries) == [layout |-> layout, entries |-> entries]

\* f.readlines() of a file.
RECURSIVE EntryLines(_, _)
EntryLines(layout, entries) ==
    IF entries = <<>> THEN <<>>
    ELSE SubjectLines(layout, entries[1].name, entries[1].subject)
         \o EntryLines(layout, Tail(entries))

ReadLines(file) == EntryLines(file.layout, file.entries)

\* line == "\n"
IsBlank(line) == line.specifier = ""

\* An exception leaves the function; value is what was built until then.
Raised(value) == [raised |-> TRUE, value |-> value]
Returned(value) == [raised |-> FALSE, value |-> value]

\* __get_line_contents: line.split(": ", maxsplit=1) has two parts unless the line
\* holds no ": ", as the blank line does.
GetLineContents(line) ==
    IF line.specifier = "" THEN Raised(None) ELSE Returned(line.contents)

\* Whether every array of the literal can be reshaped as the maker reshapes it.
Reshapes(contents, maker) ==
    \/ maker = "array"
    \/ contents.of = maker
    \/ \A k \in DOMAIN contents.value : contents.value[k] = None

\* eval(contents, {'array': maker}): a bare name is not defined, nor is the nan that
\* repr writes for a NaN; the maker raises on an array of the wrong size.
Eval(contents, maker) ==
    IF contents.type # "dict" THEN Raised(None)
    ELSE IF contents.of = "markers" /\ \E k \in DOMAIN contents.value : IsNaN(contents.value[k])
    THEN Raised(None)
    ELSE IF ~Reshapes(contents, maker) THEN Raised(None)
    ELSE Returned(contents.value)

\* lines[i], with Python's index from 0.
LineAt(lines, i) == IF i < Len(lines) THEN Returned(lines[i + 1]) ELSE Raised(None)

\* eval(__get_line_contents(lines[i]), {'array': maker})
EvalLineAt(lines, i, maker) ==
    LET line == LineAt(lines, i)
    IN  IF line.raised THEN Raised(None)
        ELSE LET contents == GetLineContents(line.value)
             IN  IF contents.raised THEN Raised(None) ELSE Eval(contents.value, maker)

\* The key a subject is stored under: the contents of the line, whatever they are.
SubjectKey(contents) ==
    IF contents.type = "name" THEN contents.value ELSE "<mapping literal>"

\* One pass of the loop body of get_frame, at line i.
ReadSubject(lines, i) ==
    LET name_line == LineAt(lines, i)
        name == GetLineContents(name_line.value)
        marker_positions_ == EvalLineAt(lines, i + 1, "array")
        segment_global_poses == EvalLineAt(lines, i + 2, "poses")
        fourth == LineAt(lines, i + 3)
        segment_local_rotations ==
            IF ~IsBlank(fourth.value)
            THEN EvalLineAt(lines, i + 3, "rotations")
            ELSE Returned(EmptyDict)
    IN  IF name_line.raised THEN Raised(None)
        ELSE IF name.raised THEN Raised(None)
        ELSE IF marker_positions_.raised THEN Raised(None)
        ELSE IF segment_global_poses.raised THEN Raised(None)
        ELSE IF fourth.raised THEN Raised(None)
        ELSE IF segment_local_rotations.raised THEN Raised(None)
        ELSE Returned([name |-> SubjectKey(name.value),
                       subject |-> Subject(marker_positions_.value,
                                           segment_global_poses.value,
                                           segment_local_rotations.value)])

\* The step from one pass of the loop to the next: i runs over range(0, len(lines), 5),
\* and the decrement of i in the body does not change the value range yields next.
Stride(fourth_is_blank) == 5

\* for i in range(0, len(lines), 5): ..., storing into the dictionary of subjects.
RECURSIVE ReadSubjects(_, _, _)
ReadSubjects(lines, i, the_subjects) ==
    IF i >= Len(lines) THEN Returned(the_subjects)
    ELSE LET read == ReadSubject(lines, i)
         IN  IF read.raised THEN Raised(the_subjects)
             ELSE ReadSubjects(lines, i + Stride(IsBlank(LineAt(lines, i + 3).value)),
                               Put(the_subjects, read.value.name, read.value.subject))

\* A version that reads the file into the dictionary as it stands.
KeptSubjects(previous) == previous

\* self.__subjects = {}
ClearedSubjects(previous) == EmptyDict

\* A version that leaves the frame number as it stands when no file is left.
KeptFrameNumber(previous) == previous

\* self.__frame_number = None
NoFrameNumber(previous) == None

\* int(frame_filename[:-len(".vicon.txt")])
FrameNumberOfName(frame_filename) == ParseInt(frame_filename.stem)

\* OfflineViconInterface.__init__, as it leaves the fields of the interface.
Constructed(filenames, number, idx, the_subjects) ==
    /\ filenames = SortedByFrameNumber(FrameFilenames)
    /\ number = None
    /\ idx = 0
    /\ the_subjects = EmptyDict

\* OfflineViconInterface.__init__
OfflineConstruct ==
    /\ ~constructed
    /\ constructed' = TRUE
    /\ Constructed(frame_filenames', frame_number', next_frame_idx', subjects')
    /\ recorded' = EmptyDict
    /\ UNCHANGED <<folder, get_frame_calls, last_file, last_return, loaded, source, saved>>
    /\ UNCHANGED <<use_vicon_poses, is_person, detected, skeletons, pose_queries>>
    /\ UNCHANGED <<hallucinationVars, designationVars, liveVars, laterVars>>

\* OfflineViconInterface.get_frame. An exception leaves the call with the subjects
\* read so far stored, the frame number set and the frame index where it was.
OfflineGetFrame ==
    /\ constructed
    /\ get_frame_calls < MaxGetFrameCalls
    /\ get_frame_calls' = get_frame_calls + 1
    /\ IF next_frame_idx < Len(frame_filenames)
       THEN LET frame_filename == frame_filenames[next_frame_idx + 1]
                read == ReadSubjects(ReadLines(folder[frame_filename]), 0,
                                     ClearedSubjects(subjects))
            IN  /\ frame_number' = <<FrameNumberOfName(frame_filename)>>
                /\ subjects' = read.value
                /\ last_file' = <<frame_filename>>
                /\ IF read.raised
                   THEN /\ last_return' = "raised"
                        /\ UNCHANGED <<next_frame_idx, loaded>>
                   ELSE /\ last_return' = "True"
                        /\ next_frame_idx' = next_frame_idx + 1
                        /\ loaded' = Append(loaded, frame_filename)
       ELSE /\ subjects' = ClearedSubjects(subjects)
            /\ frame_number' = NoFrameNumber(frame_number)
            /\ last_file' = None
            /\ last_return' = "False"
            /\ UNCHANGED <<next_frame_idx, loaded>>
    /\ recorded' = subjects'
    /\ UNCHANGED <<folder, constructed, frame_filenames, source, saved>>
    /\ UNCHANGED <<use_vicon_poses, is_person, detected, skeletons, pose_queries>>
    /\ UNCHANGED <<hallucinationVars, designationVars, liveVars, laterVars>>

\* The subjects recorded in the files below.
RecordedPerson == ArmSnapshot({"RSHO", "RELB"}, Vec(0, 0, 0))
RecordedMovedPerson == ArmSnapshot({"RSHO"}, Vec(6, 0, 0))
RecordedObject == PlacedSnapshot("Object1", TRUE, Vec(2, 0, 8))

Entry(subject_name, subject) == [name |-> subject_name, subject |-> subject]

\* What a file may hold: no subject, one or two, in either layout.
FileContents ==
    {File("new", <<>>),
     File("new", <<Entry("Person1", RecordedPerson)>>),
     File("new", <<Entry("Person1", RecordedMovedPerson), Entry("Object1", RecordedObject)>>),
     File("old", <<Entry("Person1", RecordedPerson)>>),
     File("old", <<Entry("Person1", RecordedMovedPerson), Entry("Object1", RecordedObject)>>)}

\* The names of the frame files a folder may hold, and of a file that is none.
RecordedFilenames ==
    {Filename(<<9>>, ".vicon.txt"), Filename(<<1, 0>>, ".vicon.txt"),
     Filename(<<1, 0, 0>>, ".vicon.txt")}

OtherFilename == Filename(<<7>>, ".txt")

Folders ==
    LET recordings == UNION {[names -> FileContents] : names \in SUBSET RecordedFilenames}
    IN  recordings \cup {Put(f, OtherFilename, File("new", <<>>)) : f \in recordings}

\* An interface constructed on a folder of recorded frames.
InitOffline ==
    /\ folder \in Folders
    /\ constructed = TRUE
    /\ Constructed(frame_filenames, frame_number, next_frame_idx, subjects)
    /\ recorded = EmptyDict
    /\ get_frame_calls = 0
    /\ last_file = None
    /\ last_return = "none"
    /\ loaded = <<>>
    /\ source = None
    /\ saved = FALSE
    /\ use_vicon_poses = FALSE
    /\ is_person = [kind |-> "names", names |-> {}]
    /\ detected = FALSE
    /\ skeletons = EmptyDict
    /\ pose_queries = {}
    /\ HallucinationIdle
    /\ DesignationIdle
    /\ LiveIdle
    /\ LaterIdle

NextOffline == OfflineGetFrame

SpecOffline == InitOffline /\ [][NextOffline]_vars

---------------------------------------------------------------------------
(* Claims about the offline interface (checked under SpecOffline) *)

\* The subjects a file holds, as the one who wrote the file meant them: in the
\* older layout no subject has local rotations.
RECURSIVE FileSubjects(_, _)
FileSubjects(layout, entries) ==
    IF entries = <<>> THEN EmptyDict
    ELSE LET last == entries[Len(entries)]
         IN  Put(FileSubjects(layout, SubSeq(entries, 1, Len(entries) - 1)), last.name,
                 Subject(last.subject.marker_positions,
                         last.subject.segment_global_poses,
                         IF layout = "old" THEN EmptyDict
                         ELSE last.subject.segment_local_rotations))

Min(a, b) == IF a < b THEN a ELSE b

\* C14: with N frame files in the folder, the first N get_frame calls return True
\* and load the files in increasing frame number, each once, and every later
\* call returns False.
C14_TrueExactlyNTimes ==
    LET n == Cardinality(FrameFilenames)
    IN  /\ last_return \in {"none", "True", "False"}
        /\ Len(loaded) = Min(get_frame_calls, n)
        /\ \A i \in 1..Len(loaded) :
              /\ loaded[i] \in FrameFilenames
              /\ \A j \in 1..(i - 1) :
                    GetFrameNumber(loaded[j]) < GetFrameNumber(loaded[i])
              /\ \A f \in FrameFilenames \ Range(loaded) :
                    GetFrameNumber(loaded[i]) < GetFrameNumber(f)
        /\ (0 < get_frame_calls /\ get_frame_calls <= n) => last_return = "True"
        /\ get_frame_calls > n => last_return = "False"

\* C15: get_frame_number returns None before the first get_frame call and after a
\* call that returned False, and after a call that returned True the number in the
\* name of the file that call loaded.
C15_FrameNumberOfLoadedFile ==
    /\ last_return \in {"none", "False"} => frame_number = None
    /\ last_return = "True" =>
          /\ <<loaded[Len(loaded)]>> = last_file
          /\ frame_number = <<ParseInt(last_file[1].stem)>>

\* C15 happens: frames 9 and 10 have been loaded, in this order, and the call after
\* them returned False, which cleared the frame number.
C15_Witness_ClearedAfterLastFrame ==
    /\ last_return = "False"
    /\ Len(loaded) = 2
    /\ loaded[1].stem = <<9>>
    /\ loaded[2].stem = <<1, 0>>
    /\ frame_number = None

\* C16: after a get_frame call that returned True the subjects are exactly those of
\* the file it loaded, with that file's markers and segments, and after one that
\* returned False there is no subject.
C16_FrameReplacedWholesale ==
    /\ last_return = "True" =>
          subjects = FileSubjects(folder[last_file[1]].layout,
                                  folder[last_file[1]].entries)
    /\ last_return = "False" => subjects = EmptyDict

\* C16 happens: the file loaded first held Person1 and Object1, the one loaded
\* second holds Person1 alone, elsewhere, and the frame holds just that.
C16_Witness_SubjectGone ==
    /\ last_return = "True"
    /\ Len(loaded) = 2
    /\ Len(folder[loaded[1]].entries) = 2
    /\ folder[loaded[2]].entries = <<Entry("Person1", RecordedPerson)>>
    /\ folder[loaded[2]].layout = "new"
    /\ subjects = [s \in {"Person1"} |-> RecordedPerson]

\* C17: whenever get_frame opens a file, of either layout and with any number of
\* subjects, it returns True and the frame holds each subject of the file with its
\* own markers and segment poses, with no local rotations in the older layout.
C17_BothLayoutsAnyNumberOfSubjects ==
    last_file # <<>> =>
        /\ last_return = "True"
        /\ subjects = FileSubjects(folder[last_file[1]].layout,
                                   folder[last_file[1]].entries)

---------------------------------------------------------------------------
(* Saving a frame and loading it again (ViconFrameSaver, OfflineViconInterface) *)

\* The digits after the decimal point that numpy's repr writes for a float.
ReprPrecision == 8

RECURSIVE Pow10(_)
Pow10(n) == IF n = 0 THEN 1 ELSE 10 * Pow10(n - 1)

\* The numerator over 10^ReprPrecision of x/d rounded to ReprPrecision decimals.
Rounded(x, d) ==
    LET whole == Abs(x) \div d
        rest == ((Abs(x) % d) * Pow10(ReprPrecision)) \div d
        left == ((Abs(x) % d) * Pow10(ReprPrecision)) % d
        up == IF 2 * left >= d THEN 1 ELSE 0
        n == whole * Pow10(ReprPrecision) + rest + up
    IN  IF x < 0 THEN -n ELSE n

\* The array that the text repr writes for an array of three floats stands for.
ReprArray(v) ==
    IF IsNaN(v) THEN NaNVec
    ELSE Reduce(<<Rounded(v[1], v[4]), Rounded(v[2], v[4]), Rounded(v[3], v[4]),
                  Pow10(ReprPrecision)>>)

\* The interface the saver reads: its queries, on the frame it holds.
SourceSubjectNames == DOMAIN source.subjects

SourceSegmentNames(subject_name) ==
    DOMAIN source.subjects[subject_name].segment_global_poses

SourceSegmentLocalRotation(subject_name, segment_name) ==
    IF Has(source.subjects[subject_name].segment_local_rotations, segment_name)
    THEN source.subjects[subject_name].segment_local_rotations[segment_name]
    ELSE None

\* What save_frame writes for a subject: the repr of its marker positions, and a
\* pose and a local rotation, or None, for each of its segment names.
SavedSubject(subject_name) ==
    Subject([m \in DOMAIN source.subjects[subject_name].marker_positions |->
                ReprArray(source.subjects[subject_name].marker_positions[m])],
            [sg \in SourceSegmentNames(subject_name) |->
                source.subjects[subject_name].segment_global_poses[sg]],
            [sg \in SourceSegmentNames(subject_name) |->
                SourceSegmentLocalRotation(subject_name, sg)])

\* The text save_frame builds, for the subjects in the order of get_subject_names.
SavedFile(subject_names) ==
    File("new", [i \in 1..Len(subject_names) |->
                    Entry(subject_names[i], SavedSubject(subject_names[i]))])

\* f"{self.__vicon.get_frame_number()}.txt"
SavedFilename == Filename(FormatInt(source.frame_number), ".txt")

\* ViconFrameSaver.save_frame, before an offline interface is made on the folder.
SaveFrame ==
    /\ ~constructed
    /\ \E subject_names \in Orderings(SourceSubjectNames) :
          folder' = Put(folder, SavedFilename, SavedFile(subject_names))
    /\ saved' = TRUE
    /\ UNCHANGED <<constructed, frame_filenames, frame_number, next_frame_idx,
                   get_frame_calls, last_file, last_return, loaded, source>>
    /\ UNCHANGED <<hallucinationVars, detectorVars, designationVars, liveVars, laterVars>>

\* A person a third of a unit off the places MarkerPos gives, whose coordinates
\* have no finite decimal expansion.
ThirdOff == <<1, 0, 0, 3>>

\* The frames the saver's interface may hold.
SourceFrames ==
    LET full == [Person1 : {ArmSnapshot(v, o) : v \in SUBSET {"RSHO", "RELB"},
                                               o \in {Vec(0, 0, 0), ThirdOff}},
                 Object1 : DesignationSnapshots("Object1")]
    IN  {[n \in present |-> f[n]] : f \in full, present \in SUBSET {"Person1", "Object1"}}

SourceFrameNumbers == {9, 10}

\* A saver on an empty folder and an interface that holds a frame.
InitRoundTrip ==
    /\ source \in [frame_number : SourceFrameNumbers, subjects : SourceFrames]
    /\ folder = EmptyDict
    /\ constructed = FALSE
    /\ frame_filenames = <<>>
    /\ frame_number = None
    /\ next_frame_idx = 0
    /\ get_frame_calls = 0
    /\ last_file = None
    /\ last_return = "none"
    /\ loaded = <<>>
    /\ saved = FALSE
    /\ DetectorIdle
    /\ HallucinationIdle
    /\ DesignationIdle
    /\ LiveIdle
    /\ LaterIdle

NextRoundTrip == SaveFrame \/ OfflineConstruct \/ OfflineGetFrame

SpecRoundTrip == InitRoundTrip /\ [][NextRoundTrip]_vars

---------------------------------------------------------------------------
(* Claims about the round trip (checked under SpecRoundTrip) *)

\* Whether two mappings have a value other than None at the same names.
SamePattern(d, e) ==
    \A k \in DOMAIN d \cup DOMAIN e :
        (Has(d, k) /\ d[k] # None) <=> (Has(e, k) /\ e[k] # None)

\* C18: the first get_frame call of an offline interface constructed on the folder
\* a frame was saved into returns True, and the interface then has the saved
\* frame's number, subject names and marker positions, and poses and local
\* rotations for the same segments.
C18_SavedFrameIsReloaded ==
    (saved /\ constructed /\ get_frame_calls = 1) =>
        /\ last_return = "True"
        /\ frame_number = <<source.frame_number>>
        /\ DOMAIN subjects = DOMAIN source.subjects
        /\ \A s \in DOMAIN subjects :
              /\ subjects[s].marker_positions = source.subjects[s].marker_positions
              /\ SamePattern(subjects[s].segment_global_poses,
                             source.subjects[s].segment_global_poses)
              /\ SamePattern(subjects[s].segment_local_rotations,
                             source.subjects[s].segment_local_rotations)

---------------------------------------------------------------------------
(* The live interface (LiveViconInterface) and the Vicon client *)

\* Calls of terminate on one interface, by whatever route.
MaxTerminateCalls == 3

\* Values a method returns, told apart by type.
PyNone == [type |-> "NoneType", value |-> <<>>]
PyBool(b) == [type |-> "bool", value |-> b]
PyInt(n) == [type |-> "int", value |-> n]
PyDict(d) == [type |-> "dict", value |-> d]
PyList(l) == [type |-> "list", value |-> l]
PyArray(m) == [type |-> "ndarray", value |-> m]

\* What became of the body of a call: the client operations it made, whether one
\* of them raised DataStreamException, whether an exception left the call, and
\* what the call returned if none did.
Attempt(method, client_ops, failed, result) ==
    [method |-> method, client_ops |-> client_ops, failed |-> failed,
     raised |-> failed, result |-> result]

\* The ways the body of a query may go that is to make the client operations of
\* the plan, in order. An operation raises when the client has no connection, and
\* may raise when it has one; an operation the system has no answer to (no frame
\* yet, no such subject or segment) raises, which the first of the plan then does.
Attempts(method, plan, answerable, result) ==
    {Attempt(method, SubSeq(plan, 1, f), TRUE, PyNone) :
        f \in (IF client_connected /\ answerable THEN 1..Len(plan) ELSE {1})}
    \cup (IF client_connected /\ answerable
          THEN {Attempt(method, plan, FALSE, result)}
          ELSE {})

\* A version without the except clause: the client's exception leaves the call.
Uncaught(attempt, default) == attempt

\* try: ... except ViconDataStream.DataStreamException: print(e); return default
Caught(attempt, default) ==
    IF attempt.failed
    THEN [attempt EXCEPT !.raised = FALSE, !.result = default]
    ELSE attempt

\* __from_vicon_position: millimetres to metres.
FromViconPosition(pos) ==
    IF IsNaN(pos) THEN NaNVec ELSE Reduce(<<pos[1], pos[2], pos[3], pos[4] * 1000>>)

\* A marker as the client reports it.
ServerMarker(name, trans, occluded) ==
    [name |-> name, trans |-> trans, occluded |-> occluded]

\* A frame with one person, of whose two markers the second may be occluded, and
\* whose one segment may be.
ServerFrame(number, marker_occluded, segment_occluded) ==
    [frame_number |-> number,
     subjects |-> [s \in {"Person1"} |->
        [markers |-> << ServerMarker("LASI", Vec(1000, 2000, 3000), FALSE),
                        ServerMarker("RASI", Vec(-1000, 2000, 3500), marker_occluded) >>,
         segments |-> [sg \in {"Root"} |-> [occluded |-> segment_occluded]]]]]

ServerFrames ==
    {ServerFrame(n, m, sg) : n \in {9, 10}, m \in BOOLEAN, sg \in BOOLEAN}
    \cup {[frame_number |-> 11, subjects |-> EmptyDict]}

\* The subjects and the segment the queries below are asked about.
QuerySubjects == {"Person1", "Nobody"}
QuerySegment == "Root"

HasFrame == server # <<>>

KnowsSubject(subject_name) == HasFrame /\ Has(server[1].subjects, subject_name)

KnowsSegment(subject_name, segment_name) ==
    /\ KnowsSubject(subject_name)
    /\ Has(server[1].subjects[subject_name].segments, segment_name)

\* What a query leaves alone: everything but the record of the call.
QueryFrame ==
    /\ UNCHANGED <<live, collected, alive, client_connected, disconnects,
                   terminate_calls, server>>
    /\ UNCHANGED <<hallucinationVars, detectorVars, designationVars, offlineVars, laterVars>>

\* LiveViconInterface.__init__: Connect raises when the system cannot be reached,
\* which leaves an object that is not alive, and that only its destructor sees.
LiveConstruct ==
    /\ live = "none"
    /\ \E reachable \in BOOLEAN :
          IF reachable
          THEN /\ live' = "made"
               /\ alive' = TRUE
               /\ client_connected' = TRUE
               /\ last_call' = Attempt("__init__",
                                       <<"Connect", "EnableMarkerData", "EnableSegmentData",
                                         "EnableUnlabeledMarkerData", "SetStreamMode">>,
                                       FALSE, PyNone)
          ELSE /\ live' = "failed"
               /\ alive' = FALSE
               /\ client_connected' = FALSE
               /\ last_call' = Attempt("__init__", <<"Connect">>, TRUE, PyNone)
    /\ UNCHANGED <<collected, disconnects, terminate_calls, server>>
    /\ UNCHANGED <<hallucinationVars, detectorVars, designationVars, offlineVars, laterVars>>

\* The connection to the Vicon system is lost.
ConnectionLost ==
    /\ client_connected
    /\ client_connected' = FALSE
    /\ UNCHANGED <<live, collected, alive, disconnects, terminate_calls, last_call, server>>
    /\ UNCHANGED <<hallucinationVars, detectorVars, designationVars, offlineVars, laterVars>>

\* The routes to terminate: the call itself, the end of a with block, the destructor.
TerminateCallers == {"terminate", "__exit__", "__del__"}

\* terminate, and __exit__ and __del__, which call it. The four client operations
\* are in no try block: when the first raises, the others are not made, the
\* interface stays alive and the exception leaves terminate.
LiveTerminate ==
    /\ live \in {"made", "failed"}
    /\ ~collected
    /\ terminate_calls < MaxTerminateCalls
    /\ terminate_calls' = terminate_calls + 1
    /\ \E caller \in (IF live = "made" THEN TerminateCallers ELSE {"__del__"}) :
          /\ collected' = (caller = "__del__")
          /\ IF alive
             THEN IF client_connected
                  THEN /\ last_call' = Attempt(caller,
                                               <<"DisableMarkerData", "DisableSegmentData",
                                                 "DisableUnlabeledMarkerData", "Disconnect">>,
                                               FALSE, PyNone)
                       /\ disconnects' = disconnects + 1
                       /\ client_connected' = FALSE
                       /\ alive' = FALSE
                  ELSE /\ last_call' = Attempt(caller, <<"DisableMarkerData">>, TRUE, PyNone)
                       /\ UNCHANGED <<disconnects, client_connected, alive>>
             ELSE /\ last_call' = Attempt(caller, <<>>, FALSE, PyNone)
                  /\ UNCHANGED <<disconnects, client_connected, alive>>
    /\ UNCHANGED <<live, server>>
    /\ UNCHANGED <<hallucinationVars, detectorVars, designationVars, offlineVars, laterVars>>

\* The interface can be asked: it was made, and is still referred to.
CanQuery == live = "made" /\ ~collected

\* get_frame: the client's GetFrame brings the frame the system streams now.
LiveGetFrame ==
    /\ CanQuery
    /\ \E attempt \in Attempts("get_frame", <<"GetFrame">>, TRUE, PyBool(TRUE)) :
          /\ last_call' = Caught(attempt, PyBool(FALSE))
          /\ IF attempt.failed THEN server' = server
             ELSE \E f \in ServerFrames : server' = <<f>>
    /\ UNCHANGED <<live, collected, alive, client_connected, disconnects, terminate_calls>>
    /\ UNCHANGED <<hallucinationVars, detectorVars, designationVars, offlineVars, laterVars>>

LiveGetFrameNumber ==
    /\ CanQuery
    /\ \E attempt \in Attempts("get_frame_number", <<"GetFrameNumber">>, HasFrame,
                              PyInt(server[1].frame_number)) :
          last_call' = Caught(attempt, PyNone)
    /\ QueryFrame

\* The markers GetMarkerNames lists for the subject.
ServerMarkers(subject_name) == server[1].subjects[subject_name].markers

\* The dictionary get_marker_positions builds when no client operation raises.
RECURSIVE MarkerResult(_)
MarkerResult(markers) ==
    IF markers = <<>> THEN EmptyDict
    ELSE LET marker == markers[Len(markers)]
             before == MarkerResult(SubSeq(markers, 1, Len(markers) - 1))
         IN  IF marker.occluded THEN before
             ELSE Put(before, marker.name, FromViconPosition(marker.trans))

LiveGetMarkerPositions ==
    /\ CanQuery
    /\ \E subject_name \in QuerySubjects :
          LET known == KnowsSubject(subject_name)
              plan == <<"GetMarkerNames">>
                      \o (IF known
                          THEN [i \in 1..Len(ServerMarkers(subject_name)) |->
                                   "GetMarkerGlobalTranslation"]
                          ELSE <<>>)
          IN  \E attempt \in Attempts("get_marker_positions", plan, known,
                                      PyDict(MarkerResult(ServerMarkers(subject_name)))) :
                  last_call' = Caught(attempt, PyDict(EmptyDict))
    /\ QueryFrame

LiveGetSegmentLocalRotation ==
    /\ CanQuery
    /\ \E subject_name \in QuerySubjects :
          LET known == KnowsSegment(subject_name, QuerySegment)
              occluded == server[1].subjects[subject_name].segments[QuerySegment].occluded
          IN  \E attempt \in Attempts("get_segment_local_rotation",
                                      <<"GetSegmentLocalRotationMatrix">>, known,
                                      IF occluded THEN PyNone
                                      ELSE PyArray(SegmentRotation(QuerySegment))) :
                  last_call' = Caught(attempt, PyNone)
    /\ QueryFrame

LiveGetSegmentNames ==
    /\ CanQuery
    /\ \E subject_name \in QuerySubjects :
          LET known == KnowsSubject(subject_name)
          IN  \E attempt \in Attempts("get_segment_names", <<"GetSegmentNames">>, known,
                                      PyList(DOMAIN server[1].subjects[subject_name].segments)) :
                  last_call' = Caught(attempt, PyList({}))
    /\ QueryFrame

\* get_segment_pose: the translation, and unless that is occluded the rotation.
LiveGetSegmentPose ==
    /\ CanQuery
    /\ \E subject_name \in QuerySubjects :
          LET known == KnowsSegment(subject_name, QuerySegment)
              occluded == server[1].subjects[subject_name].segments[QuerySegment].occluded
              plan == <<"GetSegmentGlobalTranslation">>
                      \o (IF known /\ ~occluded
                          THEN <<"GetSegmentGlobalRotationMatrix">> ELSE <<>>)
          IN  \E attempt \in Attempts("get_segment_pose", plan, known,
                                      IF occluded THEN PyNone
                                      ELSE PyArray(SegmentPose(QuerySegment))) :
                  last_call' = Caught(attempt, PyNone)
    /\ QueryFrame

LiveGetSubjectNames ==
    /\ CanQuery
    /\ \E attempt \in Attempts("get_subject_names", <<"GetSubjectNames">>, HasFrame,
                              PyList(DOMAIN server[1].subjects)) :
          last_call' = Caught(attempt, PyList({}))
    /\ QueryFrame

\* No interface has been made yet, and the client has brought no frame.
InitLive ==
    /\ LiveIdle
    /\ DetectorIdle
    /\ HallucinationIdle
    /\ DesignationIdle
    /\ OfflineIdle
    /\ LaterIdle

NextLive ==
    \/ LiveConstruct
    \/ ConnectionLost
    \/ LiveTerminate
    \/ LiveGetFrame
    \/ LiveGetFrameNumber
    \/ LiveGetMarkerPositions
    \/ LiveGetSegmentLocalRotation
    \/ LiveGetSegmentNames
    \/ LiveGetSegmentPose
    \/ LiveGetSubjectNames

SpecLive == InitLive /\ [][NextLive]_vars

---------------------------------------------------------------------------
(* Claims about the live interface (checked under SpecLive) *)

\* C19: once an interface has been made, the calls of terminate, by whatever route,
\* disconnect the client exactly once, the first of them, and each later one makes
\* no client operation and raises nothing; on an interface whose connection
\* attempt failed terminate makes no client operation.
C19_TerminateIdempotent ==
    LET by_terminate == last_call.method \in TerminateCallers
    IN  /\ (live = "made" /\ terminate_calls >= 1) => disconnects = 1
        /\ (live = "made" /\ terminate_calls >= 2 /\ by_terminate) =>
              /\ last_call.client_ops = <<>>
              /\ ~last_call.raised
        /\ (live = "failed" /\ by_terminate) => last_call.client_ops = <<>>

\* The per-frame queries, and what each returns when the client raises.
QueryDefaults ==
    [get_frame |-> PyBool(FALSE),
     get_frame_number |-> PyNone,
     get_marker_positions |-> PyDict(EmptyDict),
     get_segment_local_rotation |-> PyNone,
     get_segment_names |-> PyList({}),
     get_segment_pose |-> PyNone,
     get_subject_names |-> PyList({})]

\* C20: no exception leaves a per-frame query; a query during which the client
\* raised returns False, None, the empty mapping or the empty list, as its kind
\* has it; and every query asks the client, whatever the calls before it met.
C20_ClientFailureIsNotPropagated ==
    last_call.method \in DOMAIN QueryDefaults =>
        /\ ~last_call.raised
        /\ last_call.client_ops # <<>>
        /\ last_call.failed =>
              /\ last_call.result.type = QueryDefaults[last_call.method].type
              /\ last_call.result.value = QueryDefaults[last_call.method].value

\* C20 happens: get_marker_positions got the marker names and the position of the
\* first marker, the client raised on the second, and the call returned the empty
\* mapping, not the mapping with the first marker.
C20_Witness_PartialResultDropped ==
    /\ last_call.method = "get_marker_positions"
    /\ last_call.failed
    /\ last_call.client_ops = <<"GetMarkerNames", "GetMarkerGlobalTranslation",
                                "GetMarkerGlobalTranslation">>
    /\ ~last_call.raised
    /\ last_call.result = PyDict(EmptyDict)

---------------------------------------------------------------------------
(* A caller that queries the offline interface, also about subjects it lacks *)

\* OfflineViconInterface.get_segment_local_rotation
GetSegmentLocalRotation(subject_name, segment_name) ==
    IF Has(subjects, subject_name)
    THEN IF Has(subjects[subject_name].segment_local_rotations, segment_name)
         THEN subjects[subject_name].segment_local_rotations[segment_name]
         ELSE None
    ELSE None

\* An Optional[np.ndarray] as the caller receives it.
OptionalArray(m) == IF m = None THEN PyNone ELSE PyArray(m)

\* What get_segment_names hands to its caller: the list of the keys, or None.
SegmentNamesReturned(subject_name) ==
    LET found == GetSegmentNames(subject_name)
    IN  IF found.is_none THEN PyNone ELSE PyList(found.names)

\* ViconUtil.is_person as a call: `"Root" in x` raises TypeError when x is None.
ViconUtilIsPersonCall(subject_name) ==
    LET names == SegmentNamesReturned(subject_name)
    IN  IF names.type = "NoneType" THEN Raised("TypeError")
        ELSE Returned(PyBool("Root" \in names.value))

\* A query that returned, and one that ended as the outcome says.
Answered(method, subject_name, segment_name, result) ==
    [method |-> method, subject_name |-> subject_name, segment_name |-> segment_name,
     known |-> Has(subjects, subject_name), raised |-> FALSE, result |-> result]

AnsweredBy(method, subject_name, outcome) ==
    [method |-> method, subject_name |-> subject_name, segment_name |-> "",
     known |-> Has(subjects, subject_name), raised |-> outcome.raised,
     result |-> IF outcome.raised THEN PyNone ELSE outcome.value]

\* The names a caller asks about: those the frames use, and one they never hold.
AskedSubjects == SubjectNames \cup {"Nobody"}
AskedSegments == {"Root", "Object1", "Tail"}

AskMarkerPositions ==
    /\ \E s \in AskedSubjects :
          answer' = Answered("get_marker_positions", s, "", PyDict(GetMarkerPositions(s)))
    /\ UNCHANGED <<hallucinationVars, detectorVars, designationVars, offlineVars, liveVars,
                   cacheVars, variantVars>>

AskSegmentNames ==
    /\ \E s \in AskedSubjects :
          answer' = Answered("get_segment_names", s, "", SegmentNamesReturned(s))
    /\ UNCHANGED <<hallucinationVars, detectorVars, designationVars, offlineVars, liveVars,
                   cacheVars, variantVars>>

AskSegmentGlobalPose ==
    /\ \E s \in AskedSubjects, sg \in AskedSegments :
          answer' = Answered("get_segment_global_pose", s, sg,
                             OptionalArray(GetSegmentGlobalPose(s, sg)))
    /\ UNCHANGED <<hallucinationVars, detectorVars, designationVars, offlineVars, liveVars,
                   cacheVars, variantVars>>

AskSegmentLocalRotation ==
    /\ \E s \in AskedSubjects, sg \in AskedSegments :
          answer' = Answered("get_segment_local_rotation", s, sg,
                             OptionalArray(GetSegmentLocalRotation(s, sg)))
    /\ UNCHANGED <<hallucinationVars, detectorVars, designationVars, offlineVars, liveVars,
                   cacheVars, variantVars>>

AskIsPerson ==
    /\ \E s \in AskedSubjects :
          answer' = AnsweredBy("is_person", s, ViconUtilIsPersonCall(s))
    /\ UNCHANGED <<hallucinationVars, detectorVars, designationVars, offlineVars, liveVars,
                   cacheVars, variantVars>>

\* The frames of the recording the caller's interface reads: none, one or both of
\* the subjects, the person whole, short of a marker, or bare.
QueriedFrames ==
    {EmptyDict}
    \cup {[s \in {"Person1"} |-> p] : p \in AccompaniedSnapshots}
    \cup {[s \in {"Object1"} |-> o] : o \in CompanionSnapshots}
    \cup {[s \in SubjectNames |-> IF s = "Person1" THEN p ELSE o] :
             p \in AccompaniedSnapshots, o \in CompanionSnapshots}

\* get_frame, over that recording.
GetQueriedFrame ==
    /\ \E f \in QueriedFrames :
          /\ subjects' = f
          /\ recorded' = f
    /\ detected' = FALSE
    /\ skeletons' = EmptyDict
    /\ pose_queries' = {}
    /\ UNCHANGED <<use_vicon_poses, is_person, hallucinationVars, otherVars>>

\* The interface as constructed, with no detector at work on it.
InitQueries ==
    /\ subjects = NoFrame
    /\ recorded = NoFrame
    /\ use_vicon_poses = FALSE
    /\ is_person = [kind |-> "util", names |-> {}]
    /\ detected = FALSE
    /\ skeletons = EmptyDict
    /\ pose_queries = {}
    /\ HallucinationIdle
    /\ OthersIdle

NextQueries ==
    \/ GetQueriedFrame
    \/ AskMarkerPositions
    \/ AskSegmentNames
    \/ AskSegmentGlobalPose
    \/ AskSegmentLocalRotation
    \/ AskIsPerson

SpecQueries == InitQueries /\ [][NextQueries]_vars

---------------------------------------------------------------------------
(* Claims about missing data (checked under SpecQueries) *)

\* What each query answers when it has nothing to give.
EmptyValues ==
    [get_marker_positions |-> PyDict(EmptyDict),
     get_segment_names |-> PyList({}),
     get_segment_global_pose |-> PyNone,
     get_segment_local_rotation |-> PyNone,
     is_person |-> PyBool(FALSE)]

IsEmptyValue(method, result) ==
    /\ result.type = EmptyValues[method].type
    /\ result.type = "NoneType" \/ result.value = EmptyValues[method].value

\* C21: a per-subject query on a subject name that is not in the current frame
\* returns the empty value (the empty mapping, the empty list, None), and
\* ViconUtil.is_person applied to such a subject returns False and does not raise.
C21_UnknownSubjectYieldsEmptyValue ==
    (answer.method # "none" /\ ~answer.known)
        => (~answer.raised /\ IsEmptyValue(answer.method, answer.result))

---------------------------------------------------------------------------
(* SubjectFromSourceCache over a folder another program writes *)

\* The subjects a transformation is asked for, and the matrices a file may hold.
CachedSubjects == {"Person1", "Object1"}
Calibrations == {1, 2}

\* The text of a calibration file, and PoseUtil.load_pose of a file holding it.
PoseText(k) == <<"pose_text", k>>
LoadPose(text) == <<"subject_from_source", text[2]>>

\* os.path.exists of the subject's file.
Exists(subject_name) == Has(calibration_files, subject_name)

\* What a call of get did: whether it went to the disk, what it returned, and the
\* dictionary it left.
GetOutcome(looked_on_disk, result, dictionary) ==
    [looked_on_disk |-> looked_on_disk, result |-> result, dictionary |-> dictionary]

\* A version of get that goes to the file whenever there is one.
CacheGetRereading(subject_name) ==
    IF Exists(subject_name)
    THEN LET subject_from_source == LoadPose(calibration_files[subject_name])
         IN  GetOutcome(TRUE, PyArray(subject_from_source),
                        Put(subjects_from_sources, subject_name, subject_from_source))
    ELSE IF Has(subjects_from_sources, subject_name)
         THEN GetOutcome(FALSE, PyArray(subjects_from_sources[subject_name]),
                         subjects_from_sources)
         ELSE GetOutcome(TRUE, PyNone, subjects_from_sources)

\* SubjectFromSourceCache.get
CacheGet(subject_name) ==
    IF Has(subjects_from_sources, subject_name)
    THEN GetOutcome(FALSE, PyArray(subjects_from_sources[subject_name]),
                    subjects_from_sources)
    ELSE IF Exists(subject_name)
         THEN LET subject_from_source == LoadPose(calibration_files[subject_name])
              IN  GetOutcome(TRUE, PyArray(subject_from_source),
                             Put(subjects_from_sources, subject_name,
                                 subject_from_source))
         ELSE GetOutcome(TRUE, PyNone, subjects_from_sources)

Get ==
    /\ \E s \in CachedSubjects :
          LET outcome == CacheGet(s)
          IN  /\ subjects_from_sources' = outcome.dictionary
              /\ got' = [subject_name |-> s, looked_on_disk |-> outcome.looked_on_disk,
                         raised |-> FALSE, result |-> outcome.result]
    /\ UNCHANGED calibration_files
    /\ UNCHANGED <<hallucinationVars, detectorVars, designationVars, offlineVars, liveVars,
                   queryVars, variantVars>>

\* The calibration script writes a subject's file, anew or over the one there is.
WriteCalibrationFile ==
    /\ \E s \in CachedSubjects, k \in Calibrations :
          calibration_files' = Put(calibration_files, s, PoseText(k))
    /\ UNCHANGED <<subjects_from_sources, got>>
    /\ UNCHANGED <<hallucinationVars, detectorVars, designationVars, offlineVars, liveVars,
                   queryVars, variantVars>>

\* Somebody deletes a subject's file.
DeleteCalibrationFile ==
    /\ \E s \in DOMAIN calibration_files :
          calibration_files' = [x \in (DOMAIN calibration_files) \ {s} |->
                                   calibration_files[x]]
    /\ UNCHANGED <<subjects_from_sources, got>>
    /\ UNCHANGED <<hallucinationVars, detectorVars, designationVars, offlineVars, liveVars,
                   queryVars, variantVars>>

\* The cache as constructed, over a folder that holds any of the files.
InitCache ==
    /\ calibration_files \in UNION {[ss -> {PoseText(k) : k \in Calibrations}] :
                                       ss \in SUBSET CachedSubjects}
    /\ subjects_from_sources = EmptyDict
    /\ got = NoGet
    /\ DetectorIdle
    /\ HallucinationIdle
    /\ DesignationIdle
    /\ OfflineIdle
    /\ LiveIdle
    /\ QueryIdle
    /\ VariantIdle

NextCache == Get \/ WriteCalibrationFile \/ DeleteCalibrationFile

SpecCache == InitCache /\ [][NextCache]_vars

---------------------------------------------------------------------------
(* Claims about the subject-from-source cache (checked under SpecCache) *)

\* C22: the cache is lazy and append-only. No step removes or replaces an entry.
\* A get for a subject that has no entry goes to the disk: when the file is
\* missing it returns None, raises nothing and adds no entry; when the file is
\* there it returns the transformation loaded from it and adds it as the entry.
\* A get for a subject that has an entry returns that entry and does not go to
\* the disk, whatever the file holds by then.
C22_CacheLazyAndAppendOnly ==
    [][/\ \A s \in DOMAIN subjects_from_sources :
             /\ Has(subjects_from_sources', s)
             /\ subjects_from_sources'[s] = subjects_from_sources[s]
       /\ calibration_files' = calibration_files
             => LET s == got'.subject_name
                IN  /\ ~got'.raised
                    /\ (~Has(subjects_from_sources, s) /\ ~Exists(s))
                          => /\ got'.result.type = "NoneType"
                             /\ got'.looked_on_disk
                             /\ subjects_from_sources' = subjects_from_sources
                    /\ (~Has(subjects_from_sources, s) /\ Exists(s))
                          => /\ got'.result = PyArray(LoadPose(calibration_files[s]))
                             /\ got'.looked_on_disk
                             /\ subjects_from_sources' = Put(subjects_from_sources, s,
                                                             got'.result.value)
                    /\ Has(subjects_from_sources, s)
                          => /\ got'.result = PyArray(subjects_from_sources[s])
                             /\ ~got'.looked_on_disk
                             /\ subjects_from_sources' = subjects_from_sources
      ]_vars

\* A get has returned the entry of a subject whose file has since been replaced by
\* another one, and a get for a subject with no file and no entry has returned None.
C22_Witness_FileChangedAfterLoad ==
    /\ Has(subjects_from_sources, "Person1")
    /\ Exists("Person1")
    /\ LoadPose(calibration_files["Person1"]) # subjects_from_sources["Person1"]
    /\ got.subject_name = "Person1"
    /\ ~got.looked_on_disk
    /\ got.result.type = "ndarray"
    /\ got.result.value = subjects_from_sources["Person1"]
    /\ ~Has(subjects_from_sources, "Object1")

---------------------------------------------------------------------------
(* The two classes of interface and the operations their users call *)

\* The methods ViconInterface declares with @abstractmethod.
AbstractMethods ==
    {"get_frame", "get_frame_number", "get_marker_positions", "get_segment_global_pose",
     "get_segment_local_rotation", "get_segment_names", "get_subject_names",
     "terminate"}

\* The method ViconInterface defines itself.
ConcreteMethods == {"get_image_source_pose"}

\* The public methods each class defines in its own body.
LiveMethods ==
    {"get_frame", "get_frame_number", "get_marker_positions",
     "get_segment_local_rotation", "get_segment_names", "get_segment_pose",
     "get_subject_names", "terminate"}

OfflineMethods ==
    {"get_frame", "get_frame_number", "get_marker_positions", "get_segment_global_pose",
     "get_segment_local_rotation", "get_segment_names", "get_subject_names",
     "terminate"}

Variants == {"LiveViconInterface", "OfflineViconInterface"}

MethodsOf(class) ==
    IF class = "LiveViconInterface" THEN LiveMethods ELSE OfflineMethods

\* A class implements an operation when its own body defines a method of that name.
Implements(class, operation) == operation \in MethodsOf(class)

\* ABCMeta: the abstract methods no body of the class overrides.
StillAbstract(class) == AbstractMethods \ MethodsOf(class)

\* cls(...): object.__new__ raises TypeError for a class with abstract methods left.
Instantiated(class) ==
    IF StillAbstract(class) = {} THEN "made" ELSE "TypeError"

\* The operations each user calls on the interface it is given.
OperationsUsed ==
    [ViconSkeletonDetector |->
        {"get_subject_names", "get_marker_positions", "get_segment_global_pose"},
     ViconFrameSaver |->
        {"get_subject_names", "get_marker_positions", "get_segment_names",
         "get_segment_global_pose", "get_segment_local_rotation", "get_frame_number"},
     ViconUtil |->
        {"get_subject_names", "get_segment_global_pose", "get_segment_names"},
     Application |-> {"get_frame", "terminate"}]

Users == DOMAIN OperationsUsed

\* The program constructs an interface of the class it picked.
Instantiate ==
    /\ variant = "none"
    /\ \E class \in Variants :
          /\ variant' = class
          /\ instance' = Instantiated(class)
    /\ UNCHANGED operations_called
    /\ UNCHANGED <<hallucinationVars, detectorVars, designationVars, offlineVars, liveVars,
                   queryVars, cacheVars>>

\* A user calls one of its operations on the instance: attribute lookup finds the
\* method of the class, or the one ViconInterface defines.
CallOperation ==
    /\ instance = "made"
    /\ \E user \in Users :
          \E operation \in OperationsUsed[user] :
             /\ operation \in MethodsOf(variant) \cup AbstractMethods \cup ConcreteMethods
             /\ operations_called' = operations_called \cup {operation}
    /\ UNCHANGED <<variant, instance>>
    /\ UNCHANGED <<hallucinationVars, detectorVars, designationVars, offlineVars, liveVars,
                   queryVars, cacheVars>>

InitVariants ==
    /\ VariantIdle
    /\ DetectorIdle
    /\ HallucinationIdle
    /\ DesignationIdle
    /\ OfflineIdle
    /\ LiveIdle
    /\ QueryIdle
    /\ CacheIdle

NextVariants == Instantiate \/ CallOperation

SpecVariants == InitVariants /\ [][NextVariants]_vars

---------------------------------------------------------------------------
(* Claims about the two variants (checked under SpecVariants) *)

\* The operations the claim names.
DeclaredOperations ==
    {"get_frame", "get_frame_number", "get_subject_names", "get_marker_positions",
     "get_segment_names", "get_segment_global_pose", "get_segment_local_rotation",
     "terminate"}

\* C23: each operation ViconInterface declares is implemented under that name by
\* both LiveViconInterface and OfflineViconInterface, so that whichever of the two
\* the program picks is constructed and can be used.
C23_BothVariantsImplementTheSurface ==
    /\ \A class \in Variants : \A operation \in DeclaredOperations :
          Implements(class, operation)
    /\ variant # "none" => instance = "made"

---------------------------------------------------------------------------
(* Claims about the frame and the pelvis after detection (checked under Spec) *)

\* C24: detect_skeletons leaves the interface's current frame unchanged: after it,
\* get_marker_positions gives for every subject the marker names and positions of
\* the recorded frame, with no hallucinated pelvis marker among them.
C24_FrameUnchangedByDetection ==
    detected =>
        \A s \in DOMAIN subjects :
           GetMarkerPositions(s) = recorded[s].marker_positions

\* The pelvis markers of the raw frame, and the sets the MidHip keypoint is built of.
RawPelvis(subject_name) ==
    PelvisMarkers \cap DOMAIN recorded[subject_name].marker_positions

FourPelvisMarkers == <<"LASI", "LPSI", "RASI", "RPSI">>
DiagonalPairs == {{"LASI", "RPSI"}, {"RASI", "LPSI"}}
SameSidePairs == {{"LASI", "LPSI"}, {"RASI", "RPSI"}}

\* C25: a person's skeleton has the MidHip keypoint exactly when the raw frame has
\* at least three of the four pelvis markers or has just one of the diagonal pairs;
\* with at least three, MidHip is the mean of the four markers, the missing one
\* hallucinated, and not the mean of two; with a same-side pair or fewer markers
\* there is no MidHip.
C25_MidHipFromPelvisMarkers ==
    detected =>
        \A s \in DOMAIN skeletons :
           LET pelvis == RawPelvis(s)
               keypoints == skeletons[s].keypoints
               filled == TryHallucinateMissingMarkers(recorded[s].marker_positions)
           IN  /\ Has(keypoints, "MidHip")
                     <=> (Cardinality(pelvis) >= 3 \/ pelvis \in DiagonalPairs)
               /\ Cardinality(pelvis) >= 3
                     => /\ PelvisMarkers \subseteq DOMAIN filled
                        /\ keypoints["MidHip"].position
                              = MeanOfMarkers(FourPelvisMarkers, filled)
               /\ (pelvis \in SameSidePairs \/ Cardinality(pelvis) <= 1)
                     => ~Has(keypoints, "MidHip")

\* C25 happens: the raw frame lacks RPSI alone, and the MidHip of the skeleton is
\* not the mean of the diagonal pair the raw frame holds.
C25_Witness_ThreeOfFour ==
    /\ detected
    /\ Has(skeletons, "Person1")
    /\ RawPelvis("Person1") = PelvisMarkers \ {"RPSI"}
    /\ Has(skeletons["Person1"].keypoints, "MidHip")
    /\ skeletons["Person1"].keypoints["MidHip"].position
          # MeanOfMarkers(<<"RASI", "LPSI">>, recorded["Person1"].marker_positions)

---------------------------------------------------------------------------
(* Claims about a get_frame call that fails (checked under SpecOffline) *)

\* C26: an offline get_frame call that raises while it reads a frame file leaves
\* the frame number, the subjects and the index of the next frame to load as they
\* were before the call.
C26_FailedGetFrameChangesNothing ==
    [][(get_frame_calls' # get_frame_calls /\ last_return' = "raised")
          => /\ frame_number' = frame_number
             /\ subjects' = subjects
             /\ next_frame_idx' = next_frame_idx]_vars

===========================================================================
